---- MODULE Spec2Model ----
(***************************************************************************)
(* A model of inotify_dtree.c: the cache of watched directories that the   *)
(* program keeps consistent with the directory trees named on its command  *)
(* line, together with the two things it talks to: the directory tree      *)
(* itself (changed by other processes, as rand_dtree.c does) and the       *)
(* kernel's inotify instance (watches, event queue).                       *)
(*                                                                         *)
(* Strings are sequences of one-character strings, so that strncmp() and   *)
(* the test of the character that follows a prefix are modelled as the     *)
(* code computes them. The watch cache is kept sparsely: wlCache maps the  *)
(* slots in use to their contents, every other slot below cacheSize is     *)
(* the free slot (wd = -1, path = "") that markCacheSlotEmpty() leaves.    *)
(***************************************************************************)
EXTENDS Integers, Sequences, FiniteSets, TLC

VARIABLES
    fs,              \* the directories that exist: inode -> [parent, name]
    opCnt,           \* number of changes made to the tree so far
    kInst,           \* number of inotify instances created so far
    kFds,            \* open inotify file descriptors: fd -> instance
    kWatches,        \* watches of the open instance: wd -> [ino, moveSelf]
    kNextWd,         \* next watch descriptor of the open instance
    kQueue,          \* events queued on the open instance
    kCookie,         \* last rename cookie handed out
    kPending,        \* renames done whose IN_MOVED_TO is still to be queued
    wlCache,         \* slots in use: slot -> [wd, path]
    cacheSize,       \* current size of the array
    rootDirPaths,    \* command-line pathnames; NULL once zapped
    ignoreRootDirs,  \* number of pathnames we've ceased to monitor
    inotifyFd,       \* main()'s inotifyFd
    buf,             \* processInotifyEvents(): events held in buf
    numRead,         \* processInotifyEvents(): count of valid bytes in buf
    evp,             \* processInotifyEvents(): offset of the next event
    firstTry,        \* processInotifyEvents(): firstTry
    pc,              \* where the program is
    logged,          \* messages of the latest processNextInotifyEvent()
    exitStatus,      \* how the process ended: exit()'s status, or abort()
    stopFileExists,  \* the file named by -a has been made
    logfp,           \* -l option: a log file is open
    readBufferSize,  \* -b option
    abortOnCacheProblem,  \* -a option
    argv,            \* the command-line pathnames as main() got them
    cmdCnt           \* number of commands read from the terminal so far

vars == <<fs, opCnt, kInst, kFds, kWatches, kNextWd, kQueue, kCookie,
          kPending,
          wlCache, cacheSize, rootDirPaths, ignoreRootDirs, inotifyFd,
          buf, numRead, evp, firstTry, pc, logged, exitStatus,
          stopFileExists, logfp, readBufferSize,
          abortOnCacheProblem, argv, cmdCnt>>

fsVars == <<fs, opCnt, kCookie, kPending>>
progVars == <<wlCache, cacheSize, rootDirPaths, ignoreRootDirs, inotifyFd,
              buf, numRead, evp, firstTry, pc, logged, exitStatus,
              stopFileExists>>
optVars == <<readBufferSize, abortOnCacheProblem, argv, logfp>>
\* what only a command at the terminal changes
cmdVars == <<cmdCnt>>

(***************************************************************************)
(* Bounds of the model.                                                    *)
(***************************************************************************)
MaxOps == 2            \* changes made to the tree by other processes
MaxQueuedEvents == 3   \* the kernel's limit on queued events
MaxCmds == 1           \* commands typed at the terminal

(***************************************************************************)
(* Program constants.                                                      *)
(***************************************************************************)
ALLOC_INCR == 200
INOTIFY_READ_BUF_LEN == 27200
NULL == "NULL"
NUL == ""

(***************************************************************************)
(* C strings.                                                              *)
(***************************************************************************)
CharAt(s, i) == IF i <= Len(s) THEN s[i] ELSE NUL

\* strncmp(a, b, n) == 0
StrncmpEq(a, b, n) ==
    \A i \in 1..n :
        (i <= Len(a) + 1 /\ i <= Len(b) + 1) => CharAt(a, i) = CharAt(b, i)

\* snprintf(dst, sizeof(dst), "%s/%s", prefix, name)
SlashJoin(prefix, name) == prefix \o <<"/">> \o name

Min(a, b) == IF a <= b THEN a ELSE b
SetMin(S) == CHOOSE x \in S : \A y \in S : x <= y

(***************************************************************************)
(* The directory tree. Inodes 1 and 2 are the two directories named on the *)
(* command line, /t and /u; inode 3 is /o, a directory outside the         *)
(* monitored trees. parent = 0 is the filesystem root "/".                 *)
(***************************************************************************)
Names == {<<"a", "b">>}
\* the new name of a directory renamed where it is
NewNames == {<<"c">>}
OutsideIno == 3
InitFs ==
    (1 :> [parent |-> 0, name |-> <<"t">>]) @@
    (2 :> [parent |-> 0, name |-> <<"u">>]) @@
    (3 :> [parent |-> 0, name |-> <<"o">>]) @@
    (4 :> [parent |-> 1, name |-> <<"a">>])
InitArgv == << <<"/", "t">>, <<"/", "u">> >>
NestedArgv == << <<"/", "t">>, <<"/", "t", "/", "a">> >>

Children(f, p) == {i \in DOMAIN f : f[i].parent = p}

RECURSIVE PathOf(_, _)
PathOf(f, i) ==
    IF f[i].parent = 0 THEN <<"/">> \o f[i].name
    ELSE SlashJoin(PathOf(f, f[i].parent), f[i].name)

RECURSIVE Ancestors(_, _)
Ancestors(f, i) ==
    IF f[i].parent = 0 THEN {i} ELSE {i} \cup Ancestors(f, f[i].parent)

\* the directories at and below directory i
RECURSIVE Below(_, _)
Below(f, i) == {i} \cup UNION {Below(f, k) : k \in Children(f, i)}

\* pathname resolution, as lstat(), nftw() and inotify_add_watch() do it
Resolve(f, pathname) ==
    LET S == {i \in DOMAIN f : PathOf(f, i) = pathname}
    IN  IF S = {} THEN 0 ELSE CHOOSE i \in S : TRUE

\* nftw(pathname, traverseTree, 20, FTW_PHYS): the directories at and below
\* pathname in pre-order, each with the pathname nftw() hands to the callback;
\* empty when pathname does not exist (nftw() returns -1)
RECURSIVE SubtreeSeq(_, _, _)
RECURSIVE WalkKids(_, _, _)
SubtreeSeq(f, i, pathname) ==
    <<[path |-> pathname, ino |-> i]>> \o WalkKids(f, Children(f, i), pathname)
WalkKids(f, kids, pathname) ==
    IF kids = {} THEN <<>>
    ELSE LET k == SetMin(kids)
         IN  SubtreeSeq(f, k, SlashJoin(pathname, f[k].name))
               \o WalkKids(f, kids \ {k}, pathname)
Nftw(f, pathname) ==
    LET r == Resolve(f, pathname)
    IN  IF r = 0 THEN <<>> ELSE SubtreeSeq(f, r, pathname)

(***************************************************************************)
(* The kernel's side of inotify.                                           *)
(***************************************************************************)
OverflowEvent ==
    [wd |-> -1, mask |-> {"IN_Q_OVERFLOW"}, cookie |-> 0, name |-> <<>>]

\* queue an event; at the limit the single overflow event is queued instead
Enqueue(q, e) ==
    IF Len(q) >= MaxQueuedEvents
    THEN IF \E i \in 1..Len(q) : q[i] = OverflowEvent
         THEN q ELSE Append(q, OverflowEvent)
    ELSE Append(q, e)

WdOfIno(kw, ino) ==
    LET S == {w \in DOMAIN kw : kw[w].ino = ino}
    IN  IF S = {} THEN 0 ELSE CHOOSE w \in S : TRUE

\* an event on directory ino, delivered if the instance watches it
Notify(kw, q, ino, mask, cookie, name) ==
    LET w == WdOfIno(kw, ino)
    IN  IF w = 0 \/ ("IN_MOVE_SELF" \in mask /\ ~kw[w].moveSelf) THEN q
        ELSE Enqueue(q, [wd |-> w, mask |-> mask, cookie |-> cookie,
                         name |-> name])

\* inotify_add_watch(): the watch the instance already has on the inode
\* (its mask replaced), or a new one
InotifyAddWatch(kw, next, ino, moveSelf) ==
    LET w == WdOfIno(kw, ino)
    IN  IF w # 0
        THEN [wd |-> w, kw |-> [kw EXCEPT ![w].moveSelf = moveSelf],
              next |-> next]
        ELSE [wd |-> next,
              kw |-> kw @@ (next :> [ino |-> ino, moveSelf |-> moveSelf]),
              next |-> next + 1]

\* inotify_rm_watch(): fails (EINVAL) when wd is not a watch of the instance;
\* otherwise the watch goes and IN_IGNORED is queued
InotifyRmWatch(kw, q, wd) ==
    IF wd \notin DOMAIN kw THEN [ok |-> FALSE, kw |-> kw, q |-> q]
    ELSE [ok |-> TRUE,
          kw |-> [w \in DOMAIN kw \ {wd} |-> kw[w]],
          q |-> Enqueue(q, [wd |-> wd, mask |-> {"IN_IGNORED"},
                            cookie |-> 0, name |-> <<>>])]

\* the kernel's part of removing directory d: IN_DELETE_SELF, then the end of
\* its watch with IN_IGNORED
Unlinked(kw, q, d) ==
    LET w == WdOfIno(kw, d)
        r == InotifyRmWatch(kw, Notify(kw, q, d, {"IN_DELETE_SELF"}, 0, <<>>), w)
    IN  IF w = 0 THEN [kw |-> kw, q |-> q] ELSE [kw |-> r.kw, q |-> r.q]

(***************************************************************************)
(* Other processes change the tree (rand_dtree.c: mkdir, rmdir, rename)    *)
(* for as long as the program runs.                                        *)
(***************************************************************************)
Running == pc \notin {"exited", "aborted"}

\* rename(2) holds the locks of the old and the new parent directory until
\* its events are queued: no entry of these directories is made, removed or
\* renamed meanwhile (0 is "/")
Locked == UNION {{r.from, r.dir} : r \in kPending}

Mkdir(p, n) ==
    /\ Running
    /\ opCnt < MaxOps
    /\ p \in DOMAIN fs
    /\ p # OutsideIno
    /\ p \notin Locked
    /\ \A k \in Children(fs, p) : fs[k].name # n
    /\ LET used == DOMAIN fs \cup {r.victim : r \in kPending}
           i == SetMin({j \in 1..(Cardinality(used) + 1) : j \notin used})
       IN  /\ fs' = fs @@ (i :> [parent |-> p, name |-> n])
           /\ kQueue' = Notify(kWatches, kQueue, p,
                               {"IN_CREATE", "IN_ISDIR"}, 0, n)
    /\ opCnt' = opCnt + 1
    /\ UNCHANGED <<kInst, kFds, kWatches, kNextWd, kCookie, kPending,
                   progVars, optVars, cmdVars>>

Rmdir(d) ==
    /\ Running
    /\ opCnt < MaxOps
    /\ d \in DOMAIN fs
    /\ d # OutsideIno
    /\ fs[d].parent \notin Locked
    /\ Children(fs, d) = {}
    /\ fs' = [i \in DOMAIN fs \ {d} |-> fs[i]]
    /\ kWatches' = Unlinked(kWatches, kQueue, d).kw
    /\ kQueue' = Unlinked(kWatches, kQueue, d).q
    /\ opCnt' = opCnt + 1
    /\ UNCHANGED <<kInst, kFds, kNextWd, kCookie, kPending, progVars,
                   optVars, cmdVars>>

\* the orders in which the kernel may take the directories of set D
Orders(D) ==
    {o \in [1..Cardinality(D) -> D] :
        \A j, k \in 1..Cardinality(D) : j # k => o[j] # o[k]}

\* the kernel's part of unmounting, for the directories of o from the k-th
\* on: each watch is dropped with IN_UNMOUNT and then IN_IGNORED
RECURSIVE Unmounted(_, _, _, _)
Unmounted(kw, q, o, k) ==
    IF k > Len(o) THEN [kw |-> kw, q |-> q]
    ELSE LET w == WdOfIno(kw, o[k])
             r == InotifyRmWatch(
                      kw, Notify(kw, q, o[k], {"IN_UNMOUNT"}, 0, <<>>), w)
         IN  IF w = 0 THEN Unmounted(kw, q, o, k + 1)
             ELSE Unmounted(r.kw, r.q, o, k + 1)

\* directory d was the root of a filesystem mounted before the program
\* started, and that filesystem is now unmounted: the directories at and
\* below d are gone with their watches, and the directory that the mount
\* covered is seen under d's name
Unmount(d, o) ==
    /\ Running
    /\ opCnt = 0
    /\ opCnt < MaxOps
    /\ d \in DOMAIN fs
    /\ d # OutsideIno
    /\ o \in Orders(Below(fs, d))
    /\ fs' = [i \in (DOMAIN fs \ Below(fs, d)) \cup {d} |-> fs[i]]
    /\ kWatches' = Unmounted(kWatches, kQueue, o, 1).kw
    /\ kQueue' = Unmounted(kWatches, kQueue, o, 1).q
    /\ opCnt' = opCnt + 1
    /\ UNCHANGED <<kInst, kFds, kNextWd, kCookie, kPending, progVars,
                   optVars, cmdVars>>

\* the directory that rename(2) to name n in directory p replaces; 0 if none
Victim(f, p, n) ==
    LET S == {k \in Children(f, p) : f[k].name = n}
    IN  IF S = {} THEN 0 ELSE CHOOSE k \in S : TRUE

\* rename(2) moves the directory and notifies the old parent; the renaming
\* process has still to notify the new parent and the directory itself.
\* A command-line directory moves out to /o and back to its place; other
\* directories move anywhere below /t, /u and /o. An empty directory that
\* has the new name is replaced.
Rename(d, p, n) ==
    /\ Running
    /\ opCnt < MaxOps
    /\ d \in DOMAIN fs
    /\ d # OutsideIno
    /\ {fs[d].parent, p} \cap Locked = {}
    /\ \/ /\ p \in DOMAIN fs
          /\ d \notin Ancestors(fs, p)
          /\ fs[d].parent = 0 => p = OutsideIno /\ n = fs[d].name
       \/ /\ p = 0
          /\ fs[d].parent # 0
          /\ d \in DOMAIN InitFs
          /\ InitFs[d].parent = 0
          /\ n = InitFs[d].name
    /\ kCookie' = kCookie + 1
    /\ LET v == Victim(fs, p, n)
       IN  /\ v # d
           /\ v # 0 => Children(fs, v) = {}
           /\ fs' = [i \in DOMAIN fs \ {v} |->
                        IF i = d THEN [parent |-> p, name |-> n] ELSE fs[i]]
           /\ kPending' = kPending \cup
                             {[from |-> fs[d].parent, dir |-> p, name |-> n,
                               cookie |-> kCookie', self |-> d,
                               victim |-> v]}
    /\ kQueue' = IF fs[d].parent = 0 THEN kQueue
                 ELSE Notify(kWatches, kQueue, fs[d].parent,
                             {"IN_MOVED_FROM", "IN_ISDIR"}, kCookie',
                             fs[d].name)
    /\ opCnt' = opCnt + 1
    /\ UNCHANGED <<kInst, kFds, kWatches, kNextWd, progVars, optVars, cmdVars>>

\* the second half of fsnotify_move(): IN_MOVED_TO on the new parent, then
\* IN_MOVE_SELF on the directory moved; the directory replaced goes last,
\* with IN_DELETE_SELF and the end of its watch
RenameNotifyTo(r) ==
    /\ Running
    /\ r \in kPending
    /\ kPending' = kPending \ {r}
    /\ LET q1 == Notify(kWatches,
                        Notify(kWatches, kQueue, r.dir,
                               {"IN_MOVED_TO", "IN_ISDIR"}, r.cookie, r.name),
                        r.self, {"IN_MOVE_SELF"}, 0, <<>>)
       IN  /\ kWatches' = Unlinked(kWatches, q1, r.victim).kw
           /\ kQueue' = Unlinked(kWatches, q1, r.victim).q
    /\ UNCHANGED <<fs, opCnt, kCookie, kInst, kFds, kNextWd,
                   progVars, optVars, cmdVars>>

\* the name of a file that is not a directory; such files are no part of
\* the tree of directories and may be there from before the program started
FileName == <<"f">>

\* a process makes a file in directory p: the watch's mask has IN_CREATE and
\* the event comes without IN_ISDIR
CreateFile(p) ==
    /\ Running
    /\ opCnt < MaxOps
    /\ p \in DOMAIN fs
    /\ p \notin Locked
    /\ kQueue' = Notify(kWatches, kQueue, p, {"IN_CREATE"}, 0, FileName)
    /\ opCnt' = opCnt + 1
    /\ UNCHANGED <<fs, kInst, kFds, kWatches, kNextWd, kCookie, kPending,
                   progVars, optVars, cmdVars>>

\* a process renames a file of directory p into directory d: IN_MOVED_FROM
\* and IN_MOVED_TO with one cookie and without IN_ISDIR, each delivered if
\* its directory is watched
RenameFile(p, d) ==
    /\ Running
    /\ opCnt < MaxOps
    /\ {p, d} \subseteq DOMAIN fs
    /\ {p, d} \cap Locked = {}
    /\ kCookie' = kCookie + 1
    /\ kQueue' = Notify(kWatches,
                        Notify(kWatches, kQueue, p, {"IN_MOVED_FROM"},
                               kCookie', FileName),
                        d, {"IN_MOVED_TO"}, kCookie', FileName)
    /\ opCnt' = opCnt + 1
    /\ UNCHANGED <<fs, kInst, kFds, kWatches, kNextWd, kPending,
                   progVars, optVars, cmdVars>>

(***************************************************************************)
(* The watch list cache.                                                   *)
(***************************************************************************)
Slot(c, j) == IF j \in DOMAIN c THEN c[j] ELSE [wd |-> -1, path |-> <<>>]

FreeSlots(c, size) ==
    {j \in 0..Min(size - 1, Cardinality(DOMAIN c)) : j \notin DOMAIN c}

FindWatch(c, size, wd) ==
    LET S == IF wd = -1 THEN FreeSlots(c, size)
             ELSE {j \in DOMAIN c : j < size /\ c[j].wd = wd}
    IN  IF S = {} THEN -1 ELSE SetMin(S)

\* markCacheSlotEmpty() that leaves the slot as it is
MarkCacheSlotEmpty_Noop(c, slot) == c

MarkCacheSlotEmpty(c, slot) == [j \in DOMAIN c \ {slot} |-> c[j]]

\* findEmptyCacheSlot() that never looks for a free slot
FindEmptyCacheSlot_AlwaysGrows(c, size) ==
    [slot |-> size, size |-> size + ALLOC_INCR]

FindEmptyCacheSlot(c, size) ==
    IF FreeSlots(c, size) # {}
    THEN [slot |-> SetMin(FreeSlots(c, size)), size |-> size]
    ELSE [slot |-> size, size |-> size + ALLOC_INCR]

AddWatchToCache(c, size, wd, pathname) ==
    LET e == FindEmptyCacheSlot(c, size)
    IN  [cache |-> (e.slot :> [wd |-> wd, path |-> pathname]) @@ c,
         size |-> e.size, slot |-> e.slot]

PathnameToCacheSlot(c, size, pathname) ==
    LET S == {j \in DOMAIN c :
                 j < size /\ c[j].wd >= 0 /\ c[j].path = pathname}
    IN  IF S = {} THEN -1 ELSE SetMin(S)

PathnameInCache(c, size, pathname) ==
    PathnameToCacheSlot(c, size, pathname) >= 0

(***************************************************************************)
(* The command-line pathnames.                                             *)
(***************************************************************************)
FindRootDirPath(roots, path) ==
    LET S == {j \in 1..Len(roots) : roots[j] # NULL /\ path = roots[j]}
    IN  IF S = {} THEN 0 ELSE SetMin(S)

IsRootDirPath(roots, path) == FindRootDirPath(roots, path) # 0

\* zapRootDirPath() without its exit(EXIT_SUCCESS)
ZapRootDirPath_NoExit(S, path) ==
    LET p == FindRootDirPath(S.roots, path)
    IN  IF p = 0 THEN [S EXCEPT !.exit = "failure"]
        ELSE [S EXCEPT !.roots[p] = NULL, !.ignore = S.ignore + 1]

\* zapRootDirPath() without its count of the roots zapped
ZapRootDirPath_NoCount(S, path) ==
    LET p == FindRootDirPath(S.roots, path)
    IN  IF p = 0 THEN [S EXCEPT !.exit = "failure"]
        ELSE [S EXCEPT !.roots[p] = NULL]

\* the program state after zapRootDirPath(path); exit tells whether and how
\* the call ended the process
ZapRootDirPath(S, path) ==
    LET p == FindRootDirPath(S.roots, path)
    IN  IF p = 0 THEN [S EXCEPT !.exit = "failure"]
        ELSE LET S1 == [S EXCEPT !.roots[p] = NULL, !.ignore = S.ignore + 1]
             IN  IF S1.ignore = Len(S.roots)
                 THEN [S1 EXCEPT !.exit = "success"]
                 ELSE S1

(***************************************************************************)
(* Watching a subtree.                                                     *)
(***************************************************************************)
\* logMessage(): the call's messages are kept as the set of their kinds
Log(S, msg) == [S EXCEPT !.log = @ \cup {msg}]

\* traverseTree() without its findWatch(): a handle already in the cache is
\* cached again
TraverseTree_NoFindWatch(S, pathname, ino) ==
    IF ino \in S.gone THEN Log(S, "inotify_add_watch")
    ELSE IF S.fault = "add_watch"
    THEN [Log(S, "inotify_add_watch") EXCEPT !.exit = "failure"]
    ELSE LET r == InotifyAddWatch(S.kw, S.next, ino,
                                  IsRootDirPath(S.roots, pathname))
             a == AddWatchToCache(S.cache, S.size, r.wd, pathname)
         IN  [Log(S, "watchDir") EXCEPT
                 !.kw = r.kw, !.next = r.next,
                 !.cache = a.cache, !.size = a.size]

\* traverseTree() that carries on after any failure of inotify_add_watch()
TraverseTree_ErrorsIgnored(S, pathname, ino) ==
    IF ino \in S.gone \/ S.fault = "add_watch"
    THEN Log(S, "inotify_add_watch")
    ELSE LET r == InotifyAddWatch(S.kw, S.next, ino,
                                  IsRootDirPath(S.roots, pathname))
             S1 == [S EXCEPT !.kw = r.kw, !.next = r.next]
         IN  IF FindWatch(S.cache, S.size, r.wd) >= 0
             THEN Log(S1, "WD already in cache")
             ELSE LET a == AddWatchToCache(S.cache, S.size, r.wd, pathname)
                  IN  [Log(S1, "watchDir") EXCEPT
                          !.cache = a.cache, !.size = a.size]

\* traverseTree() that gives up on ENOENT as on any other error
TraverseTree_EnoentFatal(S, pathname, ino) ==
    IF ino \in S.gone \/ S.fault = "add_watch"
    THEN [Log(S, "inotify_add_watch") EXCEPT !.exit = "failure"]
    ELSE LET r == InotifyAddWatch(S.kw, S.next, ino,
                                  IsRootDirPath(S.roots, pathname))
             S1 == [S EXCEPT !.kw = r.kw, !.next = r.next]
         IN  IF FindWatch(S.cache, S.size, r.wd) >= 0
             THEN Log(S1, "WD already in cache")
             ELSE LET a == AddWatchToCache(S.cache, S.size, r.wd, pathname)
                  IN  [Log(S1, "watchDir") EXCEPT
                          !.cache = a.cache, !.size = a.size]

\* the callback nftw() runs on directory ino, reached as pathname. S.gone
\* holds the directories removed since nftw() met them: inotify_add_watch()
\* fails on them with ENOENT. S.fault = "add_watch" is any other failure of
\* inotify_add_watch().
TraverseTree(S, pathname, ino) ==
    IF ino \in S.gone THEN Log(S, "inotify_add_watch")
    ELSE IF S.fault = "add_watch"
    THEN [Log(S, "inotify_add_watch") EXCEPT !.exit = "failure"]
    ELSE LET r == InotifyAddWatch(S.kw, S.next, ino,
                                  IsRootDirPath(S.roots, pathname))
             S1 == [S EXCEPT !.kw = r.kw, !.next = r.next]
         IN  IF FindWatch(S.cache, S.size, r.wd) >= 0
             THEN Log(S1, "WD already in cache")
             ELSE LET a == AddWatchToCache(S.cache, S.size, r.wd, pathname)
                  IN  [Log(S1, "watchDir") EXCEPT
                          !.cache = a.cache, !.size = a.size]

\* the callbacks of one nftw(), which end with the process
RECURSIVE WalkFrom(_, _, _)
WalkFrom(S, entries, k) ==
    IF k > Len(entries) \/ S.exit # "no" THEN S
    ELSE WalkFrom(TraverseTree(S, entries[k].path, entries[k].ino),
                  entries, k + 1)

\* watchDir() with a walk that does not descend below pathname
WatchDir_TopOnly(S, f, pathname) ==
    IF S.fault = "nftw" \/ Nftw(f, pathname) = <<>> THEN Log(S, "nftw")
    ELSE WalkFrom(S, SubSeq(Nftw(f, pathname), 1, 1), 1)

\* nftw() returns -1 when pathname does not exist and when it fails for
\* another reason (S.fault = "nftw"); both are logged and nothing else
WatchDir(S, f, pathname) ==
    IF S.fault = "nftw" \/ Nftw(f, pathname) = <<>> THEN Log(S, "nftw")
    ELSE WalkFrom(S, Nftw(f, pathname), 1)

WatchSubtree(S, f, path) == WatchDir(S, f, path)

(***************************************************************************)
(* Renames and removals of cached subtrees.                                *)
(***************************************************************************)
\* the test without the character that follows the prefix
SubtreeMatch_PrefixOnly(prefix, path) ==
    StrncmpEq(prefix, path, Len(prefix))

\* strncmp(prefix, path, len) == 0 && (path[len] == '/' || path[len] == '\0')
SubtreeMatch(prefix, path) ==
    /\ StrncmpEq(prefix, path, Len(prefix))
    /\ CharAt(path, Len(prefix) + 1) \in {"/", NUL}

\* rewriteCachedPaths() that compares whole pathnames: the renamed directory
\* is rewritten, the directories below it are not
RewriteCachedPaths_ExactOnly(c, oldPathPrefix, oldName, newPathPrefix, newName) ==
    LET fullPath == SlashJoin(oldPathPrefix, oldName)
        newPrefix == SlashJoin(newPathPrefix, newName)
    IN  [j \in DOMAIN c |->
            IF c[j].path = fullPath THEN [c[j] EXCEPT !.path = newPrefix]
            ELSE c[j]]

\* rewriteCachedPaths() that drops what follows the old prefix: every entry
\* of the subtree gets the new pathname of its top
RewriteCachedPaths_NoSuffix(c, oldPathPrefix, oldName, newPathPrefix, newName) ==
    LET fullPath == SlashJoin(oldPathPrefix, oldName)
        newPrefix == SlashJoin(newPathPrefix, newName)
    IN  [j \in DOMAIN c |->
            IF SubtreeMatch(fullPath, c[j].path)
            THEN [c[j] EXCEPT !.path = newPrefix]
            ELSE c[j]]

RewriteCachedPaths(c, oldPathPrefix, oldName, newPathPrefix, newName) ==
    LET fullPath == SlashJoin(oldPathPrefix, oldName)
        newPrefix == SlashJoin(newPathPrefix, newName)
        len == Len(fullPath)
    IN  [j \in DOMAIN c |->
            IF SubtreeMatch(fullPath, c[j].path)
            THEN [c[j] EXCEPT !.path =
                     newPrefix \o SubSeq(c[j].path, len + 1, Len(c[j].path))]
            ELSE c[j]]

\* the loop of zapSubtree() from slot j on; cnt = -1 once inotify_rm_watch()
\* has failed
RECURSIVE ZapFrom(_, _, _, _)
ZapFrom(S, pn, j, cnt) ==
    LET later == {k \in DOMAIN S.cache : k >= j /\ k < S.size}
    IN  IF later = {} THEN [S EXCEPT !.ret = cnt]
        ELSE LET k == SetMin(later)
             IN  IF S.cache[k].wd >= 0 /\ SubtreeMatch(pn, S.cache[k].path)
                 THEN LET r == InotifyRmWatch(S.kw, S.q, S.cache[k].wd)
                      IN  IF ~r.ok
                          THEN [Log(S, "inotify_rm_watch") EXCEPT !.ret = -1]
                          ELSE ZapFrom([S EXCEPT
                                          !.kw = r.kw, !.q = r.q,
                                          !.cache = MarkCacheSlotEmpty(S.cache, k)],
                                       pn, k + 1, cnt + 1)
                 ELSE ZapFrom(S, pn, k + 1, cnt)

\* zapSubtree() that empties the cache slots and leaves the watches in place
ZapSubtree_KeepsWatches(S, path) ==
    LET gone == {j \in DOMAIN S.cache :
                    j < S.size /\ SubtreeMatch(path, S.cache[j].path)}
    IN  [Log(S, "Zapping subtree") EXCEPT
            !.cache = [j \in DOMAIN S.cache \ gone |-> S.cache[j]],
            !.ret = Cardinality(gone)]

ZapSubtree(S, path) == ZapFrom(Log(S, "Zapping subtree"), path, 0, 0)

(***************************************************************************)
(* Rebuilding the cache on a new inotify file descriptor.                  *)
(***************************************************************************)
Close(fds, fd) == [d \in DOMAIN fds \ {fd} |-> fds[d]]

LowestFreeFd(fds) ==
    SetMin({d \in 3..(3 + Cardinality(DOMAIN fds)) : d \notin DOMAIN fds})

RECURSIVE WatchRoots(_, _, _)
WatchRoots(S, f, j) ==
    IF j > Len(S.roots) THEN S
    ELSE WatchRoots(IF S.roots[j] # NULL
                    THEN WatchSubtree(S, f, S.roots[j]) ELSE S,
                    f, j + 1)

\* reinitialize() without its freeCache(): the entries of the old file
\* descriptor stay in the cache
Reinitialize_KeepsCache(S, oldInotifyFd, f) ==
    LET fds1 == IF oldInotifyFd >= 0 THEN Close(S.fds, oldInotifyFd)
                ELSE S.fds
        newFd == LowestFreeFd(fds1)
        S1 == [S EXCEPT !.fds = (newFd :> (S.inst + 1)) @@ fds1,
                        !.inst = S.inst + 1,
                        !.kw = <<>>, !.next = 1, !.q = <<>>,
                        !.fd = newFd]
    IN  WatchRoots(S1, f, 1)

\* reinitialize() that gives up the command-line pathnames once a rebuild
\* has walked them
Reinitialize_ForgetsRoots(S, oldInotifyFd, f) ==
    LET fds1 == IF oldInotifyFd >= 0 THEN Close(S.fds, oldInotifyFd)
                ELSE S.fds
        newFd == LowestFreeFd(fds1)
        S1 == [S EXCEPT !.fds = (newFd :> (S.inst + 1)) @@ fds1,
                        !.inst = S.inst + 1,
                        !.kw = <<>>, !.next = 1, !.q = <<>>,
                        !.cache = <<>>, !.size = 0,
                        !.fd = newFd]
        W == WatchRoots(S1, f, 1)
    IN  IF oldInotifyFd >= 0
        THEN [W EXCEPT !.roots = [j \in 1..Len(S.roots) |-> NULL]]
        ELSE W

\* reinitialize() without its close(oldInotifyFd)
Reinitialize_NoClose(S, oldInotifyFd, f) ==
    LET newFd == LowestFreeFd(S.fds)
        L == Log(S, IF oldInotifyFd >= 0 THEN "Reinitializing cache"
                    ELSE "Initializing cache")
        S1 == [L EXCEPT !.fds = (newFd :> (S.inst + 1)) @@ S.fds,
                        !.inst = S.inst + 1,
                        !.kw = <<>>, !.next = 1, !.q = <<>>,
                        !.cache = <<>>, !.size = 0,
                        !.fd = newFd]
    IN  WatchRoots(S1, f, 1)

Reinitialize(S, oldInotifyFd, f) ==
    LET fds1 == IF oldInotifyFd >= 0 THEN Close(S.fds, oldInotifyFd)
                ELSE S.fds
        newFd == LowestFreeFd(fds1)
        L == Log(S, IF oldInotifyFd >= 0 THEN "Reinitializing cache"
                    ELSE "Initializing cache")
        S1 == [L EXCEPT !.fds = (newFd :> (S.inst + 1)) @@ fds1,
                        !.inst = S.inst + 1,
                        !.kw = <<>>, !.next = 1, !.q = <<>>,
                        !.cache = <<>>, !.size = 0,
                        !.fd = newFd]
    IN  WatchRoots(S1, f, 1)

(***************************************************************************)
(* Processing one event of the buffer.                                     *)
(*                                                                         *)
(* The operators below work on a record S of everything a call may change: *)
(* cache, size (cacheSize), roots, ignore (ignoreRootDirs), fd (inotifyFd),*)
(* the kernel's fds, inst, kw (watches), next, q (queue), abort (-a), ret  *)
(* (the call's return value) and exit: "no" while the process runs, else   *)
(* how it ended.                                                           *)
(***************************************************************************)
SizeofInotifyEvent == 16

\* ev->len: the kernel pads a name to a multiple of the event header's size
EvNameLen(e) == IF e.name = <<>> THEN 0 ELSE SizeofInotifyEvent
EvSize(e) == SizeofInotifyEvent + EvNameLen(e)

RECURSIVE Offset(_, _)
Offset(b, i) == IF i = 1 THEN 0 ELSE Offset(b, i - 1) + EvSize(b[i - 1])

\* the index in b of the event that starts at byte off
EvIndex(b, off) == CHOOSE i \in 1..(Len(b) + 1) : Offset(b, i) = off
EvAt(b, off) == b[EvIndex(b, off)]

\* dumpCacheToLog(): fprintf(logfp, ...) for every slot in use and for the
\* total; with no log file open logfp is NULL and the call is undefined
DumpCacheToLog(S) ==
    IF S.logfp THEN Log(S, "Total entries") ELSE [S EXCEPT !.exit = "undefined"]

\* createStopFileAndAbort()
CreateStopFileAndAbort(S) ==
    LET D == DumpCacheToLog([S EXCEPT !.stop = TRUE])
    IN  IF D.exit # "no" THEN D ELSE [D EXCEPT !.exit = "abort"]

FindWatchChecked(S, wd) ==
    LET slot == FindWatch(S.cache, S.size, wd)
    IN  IF slot >= 0 THEN [S EXCEPT !.ret = slot]
        ELSE LET L == Log(S, "Could not find watch")
             IN  IF S.abort THEN CreateStopFileAndAbort(L)
                 ELSE [L EXCEPT !.ret = -1]

\* the buffer is discarded and the cache is left as it is
ReinitAndDiscard_NoReinit(S, f) == [S EXCEPT !.ret = INOTIFY_READ_BUF_LEN]

\* *inotifyFd = reinitialize(*inotifyFd); return INOTIFY_READ_BUF_LEN;
ReinitAndDiscard(S, f) ==
    [Reinitialize(S, S.fd, f) EXCEPT !.ret = INOTIFY_READ_BUF_LEN]

\* the branch without its test of the cache: every arrival starts a walk
ProcNewDir_AlwaysWalks(S, f, ev, evCacheSlot, evLen) ==
    LET fullPath == SlashJoin(S.cache[evCacheSlot].path, ev.name)
    IN  [WatchSubtree(Log(S, "Directory creation"), f, fullPath)
            EXCEPT !.ret = evLen]

\* IN_ISDIR with IN_CREATE or IN_MOVED_TO
ProcNewDir(S, f, ev, evCacheSlot, evLen) ==
    LET fullPath == SlashJoin(S.cache[evCacheSlot].path, ev.name)
        L == Log(S, "Directory creation")
    IN  IF ~PathnameInCache(L.cache, L.size, fullPath)
        THEN [WatchSubtree(L, f, fullPath) EXCEPT !.ret = evLen]
        ELSE [L EXCEPT !.ret = evLen]

\* the branch without its markCacheSlotEmpty()
ProcDeleteSelf_KeepsEntry(S, evCacheSlot, evLen) ==
    LET path == S.cache[evCacheSlot].path
        L == Log(S, "Clearing watchlist item")
        Z == IF IsRootDirPath(L.roots, path) THEN ZapRootDirPath(L, path)
             ELSE L
    IN  IF Z.exit # "no" THEN Z ELSE [Z EXCEPT !.ret = evLen]

\* IN_DELETE_SELF
ProcDeleteSelf(S, evCacheSlot, evLen) ==
    LET path == S.cache[evCacheSlot].path
        L == Log(S, "Clearing watchlist item")
        Z == IF IsRootDirPath(L.roots, path) THEN ZapRootDirPath(L, path)
             ELSE L
    IN  IF Z.exit # "no" THEN Z
        ELSE [Z EXCEPT !.cache = MarkCacheSlotEmpty(Z.cache, evCacheSlot),
                       !.ret = evLen]

\* the rename's branch without its last statement: the IN_MOVED_TO is not
\* skipped
ProcRename_OneRecord(S, f, ev, nextEv, evCacheSlot, evLen) ==
    LET L == FindWatchChecked(S, nextEv.wd)
        nextEvCacheSlot == L.ret
    IN  IF L.exit # "no" THEN L
        ELSE IF nextEvCacheSlot = -1 THEN ReinitAndDiscard(L, f)
        ELSE [Log(S, "Rename") EXCEPT
                !.cache = RewriteCachedPaths(S.cache,
                              S.cache[evCacheSlot].path, ev.name,
                              S.cache[nextEvCacheSlot].path, nextEv.name),
                !.ret = evLen]

\* the rename's branch done as a removal of the old subtree and a walk of
\* the new one
ProcRename_ZapAndWalk(S, f, ev, nextEv, evCacheSlot, evLen) ==
    LET L == FindWatchChecked(S, nextEv.wd)
        nextEvCacheSlot == L.ret
        Z == ZapSubtree(Log(S, "Rename"),
                        SlashJoin(S.cache[evCacheSlot].path, ev.name))
    IN  IF L.exit # "no" THEN L
        ELSE IF nextEvCacheSlot = -1 THEN ReinitAndDiscard(L, f)
        ELSE [WatchSubtree(Z, f, SlashJoin(S.cache[nextEvCacheSlot].path,
                                           nextEv.name))
                EXCEPT !.ret = evLen + SizeofInotifyEvent + EvNameLen(nextEv)]

\* IN_MOVED_FROM followed by its IN_MOVED_TO: a rename within the trees
ProcRename(S, f, ev, nextEv, evCacheSlot, evLen) ==
    LET L == FindWatchChecked(S, nextEv.wd)
        nextEvCacheSlot == L.ret
    IN  IF L.exit # "no" THEN L
        ELSE IF nextEvCacheSlot = -1 THEN ReinitAndDiscard(L, f)
        ELSE [Log(S, "Rename") EXCEPT
                !.cache = RewriteCachedPaths(S.cache,
                              S.cache[evCacheSlot].path, ev.name,
                              S.cache[nextEvCacheSlot].path, nextEv.name),
                !.ret = evLen + SizeofInotifyEvent + EvNameLen(nextEv)]

\* IN_MOVED_FROM without its IN_MOVED_TO: the directory has left the trees
ProcMovedOut(S, f, ev, evCacheSlot, evLen) ==
    LET fullPath == SlashJoin(S.cache[evCacheSlot].path, ev.name)
        Z == ZapSubtree(Log(S, "MOVED_OUT"), fullPath)
    IN  IF Z.ret = -1 THEN ReinitAndDiscard(Z, f)
        ELSE [Z EXCEPT !.ret = evLen]

\* the test without its two operands in turn: every unmatched IN_MOVED_FROM
\* is a move out of the trees; firstTry is not looked at
TreatAsMovedOut_Always(haveNext, ft) == TRUE
TreatAsMovedOut_NoFirstTry(haveNext, ft) == haveNext

\* ((char *) nextEv < buf + bufSize) || !firstTry
TreatAsMovedOut(haveNext, ft) == haveNext \/ ft = 0

\* the branch with a wider window: the IN_MOVED_TO is looked for in all the
\* records that follow in the buffer
ProcMovedFrom_SearchesAhead(S, f, b, off, bufSize, ft, ev, evCacheSlot, evLen) ==
    LET later == {i \in (EvIndex(b, off) + 1)..Len(b) :
                     "IN_MOVED_TO" \in b[i].mask /\ b[i].cookie = ev.cookie}
    IN  IF later # {}
        THEN ProcRename(S, f, ev, b[SetMin(later)], evCacheSlot, evLen)
        ELSE IF TreatAsMovedOut(evLen < bufSize, ft)
        THEN ProcMovedOut(S, f, ev, evCacheSlot, evLen)
        ELSE [Log(S, "HANGING IN_MOVED_FROM") EXCEPT !.ret = -1]

\* IN_MOVED_FROM | IN_ISDIR
ProcMovedFrom(S, f, b, off, bufSize, ft, ev, evCacheSlot, evLen) ==
    LET haveNext == evLen < bufSize
        nextEv == EvAt(b, off + evLen)
    IN  IF haveNext /\ "IN_MOVED_TO" \in nextEv.mask
                    /\ nextEv.cookie = ev.cookie
        THEN ProcRename(S, f, ev, nextEv, evCacheSlot, evLen)
        ELSE IF TreatAsMovedOut(haveNext, ft)
        THEN ProcMovedOut(S, f, ev, evCacheSlot, evLen)
        ELSE [Log(S, "HANGING IN_MOVED_FROM") EXCEPT !.ret = -1]

\* IN_Q_OVERFLOW taken as an event that needs no action
ProcOverflow_Skips(S, f) ==
    [Log(S, "Queue overflow") EXCEPT !.ret = SizeofInotifyEvent]

\* IN_Q_OVERFLOW
ProcOverflow(S, f) == ReinitAndDiscard(Log(S, "Queue overflow"), f)

\* the branch that also removes the watch, as zapSubtree() does
ProcUnmount_RemovesWatch(S, evCacheSlot, evLen) ==
    LET r == InotifyRmWatch(S.kw, S.q, S.cache[evCacheSlot].wd)
        L == Log(S, "Filesystem unmounted")
    IN  [(IF r.ok THEN L ELSE Log(L, "inotify_rm_watch")) EXCEPT
            !.kw = r.kw, !.q = r.q,
            !.cache = MarkCacheSlotEmpty(S.cache, evCacheSlot),
            !.ret = evLen]

\* IN_UNMOUNT
ProcUnmount(S, evCacheSlot, evLen) ==
    [Log(S, "Filesystem unmounted") EXCEPT
        !.cache = MarkCacheSlotEmpty(S.cache, evCacheSlot),
        !.ret = evLen]

\* the branch without its zapSubtree()
ProcMoveSelfRoot_KeepsEntries(S, f, evCacheSlot, evLen) ==
    LET R == ZapRootDirPath(Log(S, "Root path moved"),
                            S.cache[evCacheSlot].path)
    IN  IF R.exit # "no" THEN R ELSE [R EXCEPT !.ret = evLen]

\* the branch rebuilding the cache whether or not zapSubtree() succeeded
ProcMoveSelfRoot_AlwaysRebuilds(S, f, evCacheSlot, evLen) ==
    LET path == S.cache[evCacheSlot].path
        R == ZapRootDirPath(Log(S, "Root path moved"), path)
    IN  IF R.exit # "no" THEN R
        ELSE ReinitAndDiscard(ZapSubtree(R, path), f)

\* IN_MOVE_SELF on a root path
ProcMoveSelfRoot(S, f, evCacheSlot, evLen) ==
    LET path == S.cache[evCacheSlot].path
        R == ZapRootDirPath(Log(S, "Root path moved"), path)
        Z == ZapSubtree(R, path)
    IN  IF R.exit # "no" THEN R
        ELSE IF Z.ret = -1 THEN ReinitAndDiscard(Z, f)
        ELSE [Z EXCEPT !.ret = evLen]

\* the function looking up the handle of IN_IGNORED records too
ProcessNextInotifyEvent_LooksUpIgnored(S, f, b, off, bufSize, ft) ==
    LET ev == EvAt(b, off)
        checked == ev.wd # -1
        L == IF checked THEN FindWatchChecked(S, ev.wd) ELSE S
        evCacheSlot == L.ret
        evLen == SizeofInotifyEvent + EvNameLen(ev)
    IN  IF L.exit # "no" THEN L
        ELSE IF checked /\ evCacheSlot = -1 THEN ReinitAndDiscard(L, f)
        ELSE IF "IN_ISDIR" \in ev.mask
                /\ ev.mask \cap {"IN_CREATE", "IN_MOVED_TO"} # {}
        THEN ProcNewDir(S, f, ev, evCacheSlot, evLen)
        ELSE IF "IN_DELETE_SELF" \in ev.mask
        THEN ProcDeleteSelf(S, evCacheSlot, evLen)
        ELSE IF {"IN_MOVED_FROM", "IN_ISDIR"} \subseteq ev.mask
        THEN ProcMovedFrom(S, f, b, off, bufSize, ft, ev, evCacheSlot, evLen)
        ELSE IF "IN_Q_OVERFLOW" \in ev.mask
        THEN ProcOverflow(S, f)
        ELSE IF "IN_UNMOUNT" \in ev.mask
        THEN ProcUnmount(S, evCacheSlot, evLen)
        ELSE IF "IN_MOVE_SELF" \in ev.mask
                /\ IsRootDirPath(S.roots, S.cache[evCacheSlot].path)
        THEN ProcMoveSelfRoot(S, f, evCacheSlot, evLen)
        ELSE [S EXCEPT !.ret = evLen]

\* the dispatch with the IN_MOVED_FROM branch taken whether or not the
\* record has IN_ISDIR
ProcessNextInotifyEvent_AnyMovedFrom(S, f, b, off, bufSize, ft) ==
    LET ev == EvAt(b, off)
        checked == ev.wd # -1 /\ "IN_IGNORED" \notin ev.mask
        L == IF checked THEN FindWatchChecked(S, ev.wd) ELSE S
        evCacheSlot == L.ret
        evLen == SizeofInotifyEvent + EvNameLen(ev)
    IN  IF L.exit # "no" THEN L
        ELSE IF checked /\ evCacheSlot = -1 THEN ReinitAndDiscard(L, f)
        ELSE IF "IN_ISDIR" \in ev.mask
                /\ ev.mask \cap {"IN_CREATE", "IN_MOVED_TO"} # {}
        THEN ProcNewDir(S, f, ev, evCacheSlot, evLen)
        ELSE IF "IN_DELETE_SELF" \in ev.mask
        THEN ProcDeleteSelf(S, evCacheSlot, evLen)
        ELSE IF "IN_MOVED_FROM" \in ev.mask
        THEN ProcMovedFrom(S, f, b, off, bufSize, ft, ev, evCacheSlot, evLen)
        ELSE IF "IN_Q_OVERFLOW" \in ev.mask
        THEN ProcOverflow(S, f)
        ELSE IF "IN_UNMOUNT" \in ev.mask
        THEN ProcUnmount(S, evCacheSlot, evLen)
        ELSE IF "IN_MOVE_SELF" \in ev.mask
                /\ IsRootDirPath(S.roots, S.cache[evCacheSlot].path)
        THEN ProcMoveSelfRoot(S, f, evCacheSlot, evLen)
        ELSE [S EXCEPT !.ret = evLen]

ProcessNextInotifyEvent(S, f, b, off, bufSize, ft) ==
    LET ev == EvAt(b, off)
        checked == ev.wd # -1 /\ "IN_IGNORED" \notin ev.mask
        L == IF checked THEN FindWatchChecked(S, ev.wd) ELSE S
        evCacheSlot == L.ret
        evLen == SizeofInotifyEvent + EvNameLen(ev)
    IN  IF L.exit # "no" THEN L
        ELSE IF checked /\ evCacheSlot = -1 THEN ReinitAndDiscard(L, f)
        ELSE IF "IN_ISDIR" \in ev.mask
                /\ ev.mask \cap {"IN_CREATE", "IN_MOVED_TO"} # {}
        THEN ProcNewDir(S, f, ev, evCacheSlot, evLen)
        ELSE IF "IN_DELETE_SELF" \in ev.mask
        THEN ProcDeleteSelf(S, evCacheSlot, evLen)
        ELSE IF {"IN_MOVED_FROM", "IN_ISDIR"} \subseteq ev.mask
        THEN ProcMovedFrom(S, f, b, off, bufSize, ft, ev, evCacheSlot, evLen)
        ELSE IF "IN_Q_OVERFLOW" \in ev.mask
        THEN ProcOverflow(S, f)
        ELSE IF "IN_UNMOUNT" \in ev.mask
        THEN ProcUnmount(S, evCacheSlot, evLen)
        ELSE IF "IN_MOVE_SELF" \in ev.mask
                /\ IsRootDirPath(S.roots, S.cache[evCacheSlot].path)
        THEN ProcMoveSelfRoot(S, f, evCacheSlot, evLen)
        ELSE [S EXCEPT !.ret = evLen]

(***************************************************************************)
(* The program's steps.                                                    *)
(***************************************************************************)
CurState ==
    [cache |-> wlCache, size |-> cacheSize, roots |-> rootDirPaths,
     ignore |-> ignoreRootDirs, fd |-> inotifyFd, fds |-> kFds,
     inst |-> kInst, kw |-> kWatches, next |-> kNextWd, q |-> kQueue,
     abort |-> abortOnCacheProblem, log |-> {}, ret |-> 0, exit |-> "no",
     gone |-> {}, fault |-> "none", logfp |-> logfp,
     stop |-> stopFileExists]

\* how the process ends: after undefined behaviour it is killed by a signal
\* at the offending call, or the call returns and the process goes on to
\* its abort()
Outcomes(exit) == IF exit = "undefined" THEN {"killed", "abort"} ELSE {exit}

\* the state a call leaves behind
Becomes(S) ==
    /\ wlCache' = S.cache
    /\ cacheSize' = S.size
    /\ rootDirPaths' = S.roots
    /\ ignoreRootDirs' = S.ignore
    /\ inotifyFd' = S.fd
    /\ kFds' = S.fds
    /\ kInst' = S.inst
    /\ kWatches' = S.kw
    /\ kNextWd' = S.next
    /\ kQueue' = S.q
    /\ logged' = S.log
    /\ exitStatus' \in Outcomes(S.exit)
    /\ stopFileExists' = S.stop

\* exit() and abort() close the process's descriptors
ProcessEnds(S, how) ==
    /\ Becomes([S EXCEPT !.fds = <<>>, !.kw = <<>>, !.q = <<>>])
    /\ pc' = how
    /\ buf' = <<>>
    /\ numRead' = 0
    /\ evp' = 0
    /\ firstTry' = 1

\* read(): the number of whole events at the head of q that fit in cnt bytes
RECURSIVE FitCount(_, _)
FitCount(q, cnt) ==
    IF q = <<>> \/ EvSize(Head(q)) > cnt THEN 0
    ELSE 1 + FitCount(Tail(q), cnt - EvSize(Head(q)))

\* processInotifyEvents() up to its loop: select() has found the inotify
\* file descriptor readable (or the call follows a command, pc = "read") and
\* read() returns the events that fit; it blocks while there are none
ReadEvents ==
    /\ pc \in {"select", "read"}
    /\ kQueue # <<>>
    /\ LET cnt == IF readBufferSize > 0 THEN readBufferSize
                  ELSE INOTIFY_READ_BUF_LEN
           n == FitCount(kQueue, cnt)
       IN  IF n = 0
           THEN ProcessEnds([CurState EXCEPT !.exit = "failure"], "exited")
           ELSE /\ buf' = SubSeq(kQueue, 1, n)
                /\ kQueue' = SubSeq(kQueue, n + 1, Len(kQueue))
                /\ numRead' = Offset(kQueue, n + 1)
                /\ evp' = 0
                /\ firstTry' = 1
                /\ pc' = "proc"
                /\ logged' = {}
                /\ exitStatus' = exitStatus
                /\ stopFileExists' = stopFileExists
                /\ UNCHANGED <<wlCache, cacheSize, rootDirPaths,
                               ignoreRootDirs, inotifyFd, kFds, kInst,
                               kWatches, kNextWd>>
    /\ UNCHANGED <<fsVars, optVars, cmdVars>>

\* what the loop of processInotifyEvents() does with the state S that a call
\* of processNextInotifyEvent() leaves
LoopStep(S) ==
    IF S.exit # "no"
    THEN ProcessEnds(S, IF S.exit \in {"abort", "undefined"} THEN "aborted"
                        ELSE "exited")
    ELSE /\ Becomes(S)
         /\ IF S.ret > 0
            THEN /\ firstTry' = 1
                 /\ IF evp + S.ret < numRead
                    THEN /\ evp' = evp + S.ret
                         /\ pc' = "proc"
                         /\ UNCHANGED <<buf, numRead>>
                    ELSE /\ evp' = 0
                         /\ pc' = "select"
                         /\ buf' = <<>>
                         /\ numRead' = 0
            ELSE /\ pc' = "reread"
                 /\ UNCHANGED <<buf, numRead, evp, firstTry>>

\* one call of processNextInotifyEvent() from the loop of
\* processInotifyEvents(), and what the loop does with its result
ProcessNext ==
    /\ pc = "proc"
    /\ LoopStep(ProcessNextInotifyEvent(CurState, fs, buf, evp,
                                        numRead - evp, firstTry))
    /\ UNCHANGED <<fsVars, optVars, cmdVars>>

\* the pathname that the record to process names: the cached path of its
\* handle, a slash, its name
WalkPath ==
    SlashJoin(wlCache[FindWatch(wlCache, cacheSize, EvAt(buf, evp).wd)].path,
              EvAt(buf, evp).name)

\* the record to process is a directory's IN_CREATE or IN_MOVED_TO, and the
\* call will walk the directory's subtree
WalkStarts ==
    /\ pc = "proc"
    /\ "IN_ISDIR" \in EvAt(buf, evp).mask
    /\ EvAt(buf, evp).mask \cap {"IN_CREATE", "IN_MOVED_TO"} # {}
    /\ FindWatch(wlCache, cacheSize, EvAt(buf, evp).wd) >= 0
    /\ ~PathnameInCache(wlCache, cacheSize, WalkPath)

\* the directories nftw() meets in that walk
Walked == {Nftw(fs, WalkPath)[k].ino : k \in 1..Len(Nftw(fs, WalkPath))}

\* the call, with another process's mkdir() in directory p falling in the
\* walk, after p's inotify_add_watch() and before nftw() reads p: the new
\* directory is walked and its IN_CREATE is queued as well
ProcessNextDuringMkdir(p, n) ==
    /\ WalkStarts
    /\ opCnt < MaxOps
    /\ p \in Walked
    /\ p # OutsideIno
    /\ p \notin Locked
    /\ \A k \in Children(fs, p) : fs[k].name # n
    /\ LET used == DOMAIN fs \cup {r.victim : r \in kPending}
           i == SetMin({j \in 1..(Cardinality(used) + 1) : j \notin used})
           f1 == fs @@ (i :> [parent |-> p, name |-> n])
           S == ProcessNextInotifyEvent(CurState, f1, buf, evp,
                                        numRead - evp, firstTry)
       IN  /\ fs' = f1
           /\ LoopStep([S EXCEPT !.q = Notify(S.kw, S.q, p,
                                              {"IN_CREATE", "IN_ISDIR"}, 0, n)])
    /\ opCnt' = opCnt + 1
    /\ UNCHANGED <<kCookie, kPending, optVars, cmdVars>>

\* the call, with another process's rmdir() of directory d falling in the
\* walk, after nftw() has met d and before d's inotify_add_watch()
ProcessNextDuringRmdir(d) ==
    /\ WalkStarts
    /\ opCnt < MaxOps
    /\ d \in Walked
    /\ d # OutsideIno
    /\ fs[d].parent \notin Locked
    /\ Children(fs, d) = {}
    /\ fs' = [i \in DOMAIN fs \ {d} |-> fs[i]]
    /\ LoopStep(ProcessNextInotifyEvent(
                    [CurState EXCEPT !.gone = {d},
                                     !.kw = Unlinked(kWatches, kQueue, d).kw,
                                     !.q = Unlinked(kWatches, kQueue, d).q],
                    fs, buf, evp, numRead - evp, firstTry))
    /\ opCnt' = opCnt + 1
    /\ UNCHANGED <<kCookie, kPending, optVars, cmdVars>>

\* the call, with a failure in its walk that is not ENOENT: of nftw() itself,
\* or of the walk's first inotify_add_watch()
WalkFaults == {"nftw", "add_watch"}

ProcessNextWalkFails(fault) ==
    /\ WalkStarts
    /\ fault = "add_watch" => Walked # {}
    /\ LoopStep(ProcessNextInotifyEvent([CurState EXCEPT !.fault = fault],
                                        fs, buf, evp, numRead - evp, firstTry))
    /\ UNCHANGED <<fsVars, optVars, cmdVars>>

\* the supplementary read appending to the buffer where it stands, with no
\* move of the remaining bytes to its start
SupplementaryRead_NoShift ==
    /\ pc = "reread"
    /\ LET n == FitCount(kQueue, INOTIFY_READ_BUF_LEN - numRead)
           nr == IF kQueue = <<>> THEN 0 ELSE Offset(kQueue, n + 1)
       IN  /\ firstTry' = 0
           /\ buf' = buf \o SubSeq(kQueue, 1, n)
           /\ kQueue' = SubSeq(kQueue, n + 1, Len(kQueue))
           /\ numRead' = numRead + nr
           /\ evp' = evp
    /\ pc' = "proc"
    /\ logged' = {"SECONDARY Read"}
    /\ exitStatus' = exitStatus
    /\ stopFileExists' = stopFileExists
    /\ UNCHANGED <<wlCache, cacheSize, rootDirPaths, ignoreRootDirs,
                   inotifyFd, kFds, kInst, kWatches, kNextWd>>
    /\ UNCHANGED <<fsVars, optVars, cmdVars>>

\* the loop's other branch: the rest of the buffer is moved to its start and
\* a read() is tried under a 2 millisecond alarm; with nothing queued the
\* alarm interrupts it (nr = -1, EINTR).  The test that follows is
\* "errno != -1", which no value of errno fails: nr is added to numRead and
\* the read is counted and logged as "SECONDARY Read" in either case
SupplementaryRead ==
    /\ pc = "reread"
    /\ LET rest == SubSeq(buf, EvIndex(buf, evp), Len(buf))
           left == numRead - evp
           n == FitCount(kQueue, INOTIFY_READ_BUF_LEN - left)
           nr == IF kQueue = <<>> THEN -1 ELSE Offset(kQueue, n + 1)
       IN  /\ firstTry' = 0
           /\ buf' = rest \o SubSeq(kQueue, 1, n)
           /\ kQueue' = SubSeq(kQueue, n + 1, Len(kQueue))
           /\ numRead' = left + nr
           /\ evp' = 0
    /\ pc' = "proc"
    /\ logged' = {"SECONDARY Read"}
    /\ exitStatus' = exitStatus
    /\ stopFileExists' = stopFileExists
    /\ UNCHANGED <<wlCache, cacheSize, rootDirPaths, ignoreRootDirs,
                   inotifyFd, kFds, kInst, kWatches, kNextWd>>
    /\ UNCHANGED <<fsVars, optVars, cmdVars>>

(***************************************************************************)
(* Commands typed at the terminal: main() calls executeCommand() when      *)
(* select() finds standard input readable.                                 *)
(***************************************************************************)
\* 'a path': the subtree's entries and watches are removed and the subtree
\* is walked; the count that zapSubtree() returns is only logged
CmdAdd(S, f, arg) ==
    LET Z == ZapSubtree(S, arg)
    IN  WatchSubtree(Log(Z, IF Z.ret = 0 THEN "Adding new subtree"
                            ELSE "Zapped"),
                     f, arg)

\* 'z path'
CmdZap(S, arg) == Log(ZapSubtree(S, arg), "Zapped")

\* '0': close(*inotifyFd); *inotifyFd = reinitialize(-1);
CmdRebuild(S, f) ==
    Reinitialize([S EXCEPT !.fds = Close(S.fds, S.fd)], -1, f)

\* 'q'
CmdQuit(S) == [S EXCEPT !.exit = "success"]

\* the pathnames typed: those of the cache and of the directories there are
CmdArgs ==
    {wlCache[j].path : j \in DOMAIN wlCache}
        \cup {PathOf(fs, i) : i \in DOMAIN fs \ {OutsideIno}}

\* select() has set in rfds the descriptors that were readable when it
\* returned: the inotify descriptor is in rfds when events were queued
FdIsSet(fd) == fd = inotifyFd /\ kQueue # <<>>

\* main(): select() finds standard input readable and executeCommand() is
\* called; FD_ISSET(inotifyFd, &rfds) is then tested with the number that
\* inotifyFd holds after the command, and when it is set
\* processInotifyEvents() is called and starts with a read() that blocks
ExecuteCommand(cmd, arg) ==
    /\ pc = "select"
    /\ cmdCnt < MaxCmds
    /\ cmdCnt' = cmdCnt + 1
    /\ LET S == IF cmd = "a" THEN CmdAdd(CurState, fs, arg)
                ELSE IF cmd = "z" THEN CmdZap(CurState, arg)
                ELSE IF cmd = "0" THEN CmdRebuild(CurState, fs)
                ELSE CmdQuit(CurState)
       IN  IF S.exit # "no" THEN ProcessEnds(S, "exited")
           ELSE /\ Becomes(S)
                /\ pc' = IF FdIsSet(S.fd) THEN "read" ELSE "select"
                /\ UNCHANGED <<buf, numRead, evp, firstTry>>
    /\ UNCHANGED <<fsVars, optVars>>

(***************************************************************************)
(* main() before its loop: the command-line pathnames are checked and      *)
(* copied, then the cache is built.                                        *)
(***************************************************************************)
\* pathnames of things that are not directories, and their inode numbers
FilePaths == {<<"/", "f">>}
FileIno(pathname) == 100

\* pathname resolution takes no notice of slashes at the end
RECURSIVE StripSlashes(_)
StripSlashes(pathname) ==
    IF Len(pathname) > 1 /\ pathname[Len(pathname)] = "/"
    THEN StripSlashes(SubSeq(pathname, 1, Len(pathname) - 1))
    ELSE pathname

\* lstat(pathname, &sb): everything is on one device
Lstat(f, pathname) ==
    LET name == StripSlashes(pathname)
        r == Resolve(f, name)
    IN  IF r # 0 THEN [ok |-> TRUE, isDir |-> TRUE, ino |-> r, dev |-> 1]
        ELSE IF name \in FilePaths /\ name = pathname
        THEN [ok |-> TRUE, isDir |-> FALSE, ino |-> FileIno(name), dev |-> 1]
        ELSE [ok |-> FALSE, isDir |-> FALSE, ino |-> 0, dev |-> 0]

\* copyRootDirPaths() telling duplicates apart by their strings
CopyRootDirPaths_ComparesStrings(S, f, av) ==
    IF \E j \in 1..Len(av) : ~Lstat(f, av[j]).ok
    THEN [Log(S, "lstat() failed") EXCEPT !.exit = "failure"]
    ELSE IF \E j \in 1..Len(av) : ~Lstat(f, av[j]).isDir
    THEN [Log(S, "is not a directory") EXCEPT !.exit = "failure"]
    ELSE IF \E j \in 1..Len(av) : \E k \in 1..(j - 1) : av[j] = av[k]
    THEN [Log(S, "Duplicate filesystem objects") EXCEPT !.exit = "failure"]
    ELSE [S EXCEPT !.roots = av, !.ignore = 0]

\* copyRootDirPaths(argv): the first loop ends the process at a pathname
\* that lstat() cannot find or that is not a directory, the second at a
\* pathname with the i-node number and device of an earlier one
CopyRootDirPaths(S, f, av) ==
    IF \E j \in 1..Len(av) : ~Lstat(f, av[j]).ok
    THEN [Log(S, "lstat() failed") EXCEPT !.exit = "failure"]
    ELSE IF \E j \in 1..Len(av) : ~Lstat(f, av[j]).isDir
    THEN [Log(S, "is not a directory") EXCEPT !.exit = "failure"]
    ELSE IF \E j \in 1..Len(av) : \E k \in 1..(j - 1) :
                /\ Lstat(f, av[j]).ino = Lstat(f, av[k]).ino
                /\ Lstat(f, av[j]).dev = Lstat(f, av[k]).dev
    THEN [Log(S, "Duplicate filesystem objects") EXCEPT !.exit = "failure"]
    ELSE [S EXCEPT !.roots = av, !.ignore = 0]

\* main() from the end of its option parsing to the start of its loop
Main ==
    /\ pc = "start"
    /\ LET C == CopyRootDirPaths(CurState, fs, argv)
           S == Reinitialize(C, -1, fs)
       IN  IF C.exit # "no" THEN ProcessEnds(C, "exited")
           ELSE IF S.exit # "no" THEN ProcessEnds(S, "exited")
           ELSE /\ Becomes(S)
                /\ pc' = "select"
                /\ UNCHANGED <<buf, numRead, evp, firstTry>>
    /\ UNCHANGED <<fsVars, optVars, cmdVars>>

(***************************************************************************)
(* The state once main() has copied the root paths and built the cache.    *)
(***************************************************************************)
ReadBufferSizes == {0}

Blank ==
    [cache |-> <<>>, size |-> 0, roots |-> InitArgv, ignore |-> 0,
     fd |-> -1, fds |-> <<>>, inst |-> 0, kw |-> <<>>, next |-> 1,
     q |-> <<>>, abort |-> FALSE, log |-> {}, ret |-> 0, exit |-> "no",
     gone |-> {}, fault |-> "none", logfp |-> FALSE, stop |-> FALSE]

\* main() run with the command-line pathnames paths
InitWith(paths) ==
    /\ argv = paths
    /\ cmdCnt = 0
    /\ fs = InitFs
    /\ opCnt = 0
    /\ kCookie = 0
    /\ kPending = {}
    /\ LET S == Reinitialize([Blank EXCEPT !.roots = paths], -1, InitFs)
       IN  /\ wlCache = S.cache
           /\ cacheSize = S.size
           /\ rootDirPaths = S.roots
           /\ ignoreRootDirs = S.ignore
           /\ inotifyFd = S.fd
           /\ kFds = S.fds
           /\ kInst = S.inst
           /\ kWatches = S.kw
           /\ kNextWd = S.next
           /\ kQueue = S.q
    /\ buf = <<>>
    /\ numRead = 0
    /\ evp = 0
    /\ firstTry = 1
    /\ pc = "select"
    /\ exitStatus = "no"
    /\ stopFileExists = FALSE
    /\ logged = {}
    /\ readBufferSize \in ReadBufferSizes

InitProgram == InitWith(InitArgv)

\* without -a
Init == InitProgram /\ abortOnCacheProblem = FALSE /\ logfp = FALSE

\* without -a, one command-line directory below the other
InitNested ==
    InitWith(NestedArgv) /\ abortOnCacheProblem = FALSE /\ logfp = FALSE

\* with or without -a, with or without -l
InitAny ==
    InitProgram /\ abortOnCacheProblem \in BOOLEAN /\ logfp \in BOOLEAN

\* without -a; since main() built the cache another process has made a
\* directory in one of the directories watched, and its IN_CREATE waits to
\* be read. The changes that opCnt counts are those made from here on.
InitAfterMkdir ==
    /\ argv = InitArgv
    /\ cmdCnt = 0
    /\ opCnt = 0
    /\ kCookie = 0
    /\ kPending = {}
    /\ LET S == Reinitialize(Blank, -1, InitFs)
       IN  /\ \E p \in DOMAIN InitFs \ {OutsideIno}, n \in Names :
                 /\ \A k \in Children(InitFs, p) : InitFs[k].name # n
                 /\ fs = InitFs @@ (Cardinality(DOMAIN InitFs) + 1
                                      :> [parent |-> p, name |-> n])
                 /\ kQueue = Notify(S.kw, S.q, p,
                                    {"IN_CREATE", "IN_ISDIR"}, 0, n)
           /\ wlCache = S.cache
           /\ cacheSize = S.size
           /\ rootDirPaths = S.roots
           /\ ignoreRootDirs = S.ignore
           /\ inotifyFd = S.fd
           /\ kFds = S.fds
           /\ kInst = S.inst
           /\ kWatches = S.kw
           /\ kNextWd = S.next
    /\ buf = <<>>
    /\ numRead = 0
    /\ evp = 0
    /\ firstTry = 1
    /\ pc = "select"
    /\ exitStatus = "no"
    /\ stopFileExists = FALSE
    /\ logged = {}
    /\ readBufferSize \in ReadBufferSizes
    /\ abortOnCacheProblem = FALSE
    /\ logfp = FALSE

Next ==
    \/ \E p \in DOMAIN fs, n \in Names : Mkdir(p, n)
    \/ \E d \in DOMAIN fs : Rmdir(d)
    \/ \E d \in DOMAIN fs, p \in DOMAIN fs \cup {0} :
          \E n \in Names \cup {fs[k].name : k \in {d} \cup Children(fs, p)}
                       \cup (IF p = fs[d].parent THEN NewNames ELSE {}) :
             Rename(d, p, n)
    \/ \E r \in kPending : RenameNotifyTo(r)
    \/ ReadEvents
    \/ ProcessNext
    \/ \E p \in DOMAIN fs, n \in Names : ProcessNextDuringMkdir(p, n)
    \/ \E d \in DOMAIN fs : ProcessNextDuringRmdir(d)
    \/ \E fault \in WalkFaults : ProcessNextWalkFails(fault)
    \/ SupplementaryRead

\* the program with somebody at its terminal
NextWithCommands ==
    \/ Next
    \/ \E arg \in CmdArgs : ExecuteCommand("a", arg)
    \/ \E arg \in CmdArgs : ExecuteCommand("z", arg)
    \/ ExecuteCommand("0", <<>>)
    \/ ExecuteCommand("q", <<>>)

\* the program watching a tree with a mounted filesystem in it
NextWithUnmount ==
    \/ Next
    \/ \E d \in DOMAIN fs : \E o \in Orders(Below(fs, d)) : Unmount(d, o)

\* the changes of the tree, and files made and renamed in its directories
NextWithFiles ==
    \/ Next
    \/ \E p \in DOMAIN fs : CreateFile(p)
    \/ \E p \in DOMAIN fs, d \in DOMAIN fs : RenameFile(p, d)

\* the command lines tried: two directories, one directory below the
\* other, something that is not a directory, something that does not exist,
\* one directory twice, and one directory under two spellings
StartArgvs ==
    {InitArgv, NestedArgv,
     << <<"/", "t">>, <<"/", "f">> >>,
     << <<"/", "t">>, <<"/", "x">> >>,
     << <<"/", "u">>, <<"/", "t">>, <<"/", "u">> >>,
     << <<"/", "t">>, <<"/", "t", "/">> >>}

\* main() is entered: nothing is copied, opened or cached yet
InitStart ==
    /\ argv \in StartArgvs
    /\ cmdCnt = 0
    /\ fs = InitFs
    /\ opCnt = 0
    /\ kCookie = 0
    /\ kPending = {}
    /\ wlCache = Blank.cache
    /\ cacheSize = Blank.size
    /\ rootDirPaths = <<>>
    /\ ignoreRootDirs = Blank.ignore
    /\ inotifyFd = Blank.fd
    /\ kFds = Blank.fds
    /\ kInst = Blank.inst
    /\ kWatches = Blank.kw
    /\ kNextWd = Blank.next
    /\ kQueue = Blank.q
    /\ buf = <<>>
    /\ numRead = 0
    /\ evp = 0
    /\ firstTry = 1
    /\ pc = "start"
    /\ exitStatus = "no"
    /\ stopFileExists = FALSE
    /\ logged = {}
    /\ readBufferSize \in ReadBufferSizes
    /\ abortOnCacheProblem = FALSE
    /\ logfp = FALSE

NextFromStart == Main \/ Next

Spec == Init /\ [][Next]_vars

SpecFromStart == InitStart /\ [][NextFromStart]_vars

SpecWithUnmount == Init /\ [][NextWithUnmount]_vars

SpecWithFiles == Init /\ [][NextWithFiles]_vars

SpecWithCommands == Init /\ [][NextWithCommands]_vars

SpecAny == InitAny /\ [][Next]_vars

SpecNested == InitNested /\ [][Next]_vars

SpecAfterMkdir == InitAfterMkdir /\ [][Next]_vars


(***************************************************************************)
(* What the claims speak of.                                               *)
(***************************************************************************)
\* the pathnames of the cache entries in use
CachePaths(c) == {c[j].path : j \in {k \in DOMAIN c : c[k].wd # -1}}

\* the pathnames of the directories that exist at or below a root path that
\* has not been zapped
DirsUnderRoots(f, roots) ==
    {PathOf(f, i) : i \in {k \in DOMAIN f :
        \E j \in 1..Len(roots) :
            roots[j] # NULL /\ SubtreeMatch(roots[j], PathOf(f, k))}}

\* every event of every change made so far has been queued, read and
\* processed
EventComplete ==
    pc = "select" /\ kQueue = <<>> /\ kPending = {}

\* C1: once every event of the changes made under the monitored roots has
\* been delivered and processed, the pathnames of the cache entries in use
\* are exactly the directories that exist under the roots not zapped.
C1_CacheMirrorsTree ==
    EventComplete => CachePaths(wlCache) = DirsUnderRoots(fs, rootDirPaths)

\* path is P, or P followed by '/' and a suffix
AtOrUnder(P, path) ==
    \/ path = P
    \/ /\ Len(path) > Len(P)
       /\ SubSeq(path, 1, Len(P)) = P
       /\ path[Len(P) + 1] = "/"

ActiveSlots(c) == {j \in DOMAIN c : c[j].wd # -1}
HandleCached(c, wd) == \E j \in ActiveSlots(c) : c[j].wd = wd
CachedPath(c, wd) == c[SetMin({j \in ActiveSlots(c) : c[j].wd = wd})].path
NoDuplicatePaths(c) ==
    \A j, k \in ActiveSlots(c) : j # k => c[j].path # c[k].path
SlotsAtOrUnder(c, P) == {j \in ActiveSlots(c) : AtOrUnder(P, c[j].path)}

\* the record at evp, and the record that follows it in the buffer
CurIdx == EvIndex(buf, evp)
CurEv == buf[CurIdx]
HasNextEv == CurIdx < Len(buf)
NextEv == buf[CurIdx + 1]
IsCur(flag) == pc = "proc" /\ flag \in CurEv.mask
DirMovedFrom == IsCur("IN_MOVED_FROM") /\ "IN_ISDIR" \in CurEv.mask
MatchingMovedTo ==
    HasNextEv /\ "IN_MOVED_TO" \in NextEv.mask /\ NextEv.cookie = CurEv.cookie

\* this step is a call of processNextInotifyEvent()
Processing == pc = "proc" /\ (pc' # pc \/ evp' # evp)
\* this step rebuilds the cache on a new inotify instance
Reinitializing == kInst' # kInst
\* the call consumed exactly n bytes of the buffer
Consumed(n) ==
    IF evp + n < numRead
    THEN pc' = "proc" /\ evp' = evp + n /\ buf' = buf /\ numRead' = numRead
    ELSE pc' = "select"
\* no record of the buffer is left to process
BufferDiscarded == pc' = "select" /\ buf' = <<>> /\ numRead' = 0 /\ evp' = 0

\* the cache is what a walk of the roots not zapped gives: one entry and one
\* watch of the open instance for each directory, under the pathname by
\* which it is found
FreshSnapshot(c, kw, f, roots) ==
    /\ CachePaths(c) = DirsUnderRoots(f, roots)
    /\ NoDuplicatePaths(c)
    /\ {c[j].wd : j \in ActiveSlots(c)} = DOMAIN kw
    /\ Cardinality(ActiveSlots(c)) = Cardinality(DOMAIN kw)
    /\ \A j \in ActiveSlots(c) : kw[c[j].wd].ino = Resolve(f, c[j].path)

\* C2: when reinitialize() is done the old inotify file descriptor is closed
\* and one new instance is open, every cache entry holds a watch of the new
\* instance, and the cache is the walk of the roots not zapped, with one
\* entry and one watch for each directory; zapped roots are not walked.
C2_ReinitRebuilds ==
    [][Reinitializing =>
        /\ kInst' = kInst + 1
        /\ kInst \notin {kFds'[d] : d \in DOMAIN kFds'}
        /\ DOMAIN kFds' = {inotifyFd'}
        /\ kFds'[inotifyFd'] = kInst'
        /\ kQueue' = <<>>
        /\ FreshSnapshot(wlCache', kWatches', fs', rootDirPaths')
        /\ \A j \in 1..Len(rootDirPaths') :
              rootDirPaths'[j] = NULL =>
                  \A k \in ActiveSlots(wlCache') :
                      ~AtOrUnder(InitArgv[j], wlCache'[k].path)]_vars

\* a cache has just been rebuilt while a zapped root's directory exists
C2_Witness ==
    /\ "Reinitializing cache" \in logged
    /\ kInst = 2
    /\ pc = "select"
    /\ \E j \in 1..Len(rootDirPaths) :
          rootDirPaths[j] = NULL /\ Resolve(fs, InitArgv[j]) # 0
    /\ CachePaths(wlCache) # {}

PairedRename ==
    /\ DirMovedFrom
    /\ MatchingMovedTo
    /\ HandleCached(wlCache, CurEv.wd)
    /\ HandleCached(wlCache, NextEv.wd)
OldFullPath == SlashJoin(CachedPath(wlCache, CurEv.wd), CurEv.name)
NewFullPath == SlashJoin(CachedPath(wlCache, NextEv.wd), NextEv.name)

C5_PairAlwaysRewritten ==
    [][DirMovedFrom /\ MatchingMovedTo /\ Processing =>
        /\ Consumed(EvSize(CurEv) + EvSize(NextEv))
        /\ logged' = {"Rename"}
        /\ kInst' = kInst
        /\ kWatches' = kWatches]_vars

\* C5, amended: the IN_MOVED_TO that follows its IN_MOVED_FROM in the buffer
\* never becomes the record being processed and no walk is started for it;
\* when the handles of both records are cached, one call consumes both
\* records and does the whole rewrite, touching no watch; when one is not,
\* the same call discards the buffer and rebuilds the cache.
C5_PairAppliedTogether ==
    [][DirMovedFrom /\ MatchingMovedTo /\ Processing =>
        /\ "Directory creation" \notin logged'
        /\ ~(pc' = "proc" /\ EvIndex(buf', evp') = CurIdx + 1)
        /\ IF HandleCached(wlCache, CurEv.wd)
              /\ HandleCached(wlCache, NextEv.wd)
           THEN /\ Consumed(EvSize(CurEv) + EvSize(NextEv))
                /\ logged' = {"Rename"}
                /\ SlotsAtOrUnder(wlCache', OldFullPath) = {}
                /\ ActiveSlots(wlCache') = ActiveSlots(wlCache)
                /\ \A j \in ActiveSlots(wlCache) :
                      wlCache'[j].wd = wlCache[j].wd
                /\ kWatches' = kWatches
                /\ kInst' = kInst
           ELSE /\ Reinitializing
                /\ BufferDiscarded]_vars

\* a rename has just been applied and the cache mirrors the changed tree
C5_Witness ==
    /\ logged = {"Rename"}
    /\ kInst = 1
    /\ fs # InitFs
    /\ CachePaths(wlCache) = DirsUnderRoots(fs, rootDirPaths)

\* a directory IN_MOVED_FROM, its handle cached, that is being retried and
\* still has no IN_MOVED_TO after it
UnmatchedRetry ==
    /\ DirMovedFrom
    /\ ~MatchingMovedTo
    /\ firstTry = 0
    /\ HandleCached(wlCache, CurEv.wd)

\* the entries at or under the old pathname are removed with their watches,
\* and every other entry stays as it is
SubtreeRemoved ==
    LET gone == SlotsAtOrUnder(wlCache, OldFullPath)
    IN  /\ ActiveSlots(wlCache') = ActiveSlots(wlCache) \ gone
        /\ \A j \in ActiveSlots(wlCache') : wlCache'[j] = wlCache[j]
        /\ DOMAIN kWatches' =
              DOMAIN kWatches \ {wlCache[j].wd : j \in gone}
        /\ kInst' = kInst

\* C6 as claimed: an unmatched IN_MOVED_FROM being retried always removes
\* the entries at or under P with their watches and leaves the others.
C6_RetryAlwaysRemoves ==
    [][UnmatchedRetry /\ Processing => SubtreeRemoved]_vars

\* C6, amended: an unmatched IN_MOVED_FROM being retried removes the entries
\* at or under P together with their watches and leaves the other entries
\* as they are, provided each of these watches still exists; when one has
\* gone, the buffer is discarded and the cache is rebuilt.
C6_RetryRemovesSubtree ==
    [][UnmatchedRetry /\ Processing =>
        IF \A j \in SlotsAtOrUnder(wlCache, OldFullPath) :
               wlCache[j].wd \in DOMAIN kWatches
        THEN /\ SubtreeRemoved
             /\ "MOVED_OUT" \in logged'
             /\ Consumed(EvSize(CurEv))
        ELSE /\ Reinitializing
             /\ BufferDiscarded
             /\ FreshSnapshot(wlCache', kWatches', fs',
                              rootDirPaths')]_vars

\* a retried IN_MOVED_FROM that ended the buffer has just been handled as a
\* move out of the trees, and the cache mirrors the tree
C6_Witness ==
    /\ {"MOVED_OUT", "Zapping subtree"} \subseteq logged
    /\ "Reinitializing cache" \notin logged
    /\ pc = "select"
    /\ kInst = 1
    /\ Cardinality(ActiveSlots(wlCache)) < Cardinality(DOMAIN InitFs) - 1
    /\ CachePaths(wlCache) = DirsUnderRoots(fs, rootDirPaths)

\* a directory IN_MOVED_FROM, its handle cached, on its first attempt with
\* no IN_MOVED_TO after it
UnmatchedFirstTry ==
    /\ DirMovedFrom
    /\ ~MatchingMovedTo
    /\ firstTry = 1
    /\ HandleCached(wlCache, CurEv.wd)

\* the call asks for another read() and changes nothing
Deferred ==
    /\ pc' = "reread"
    /\ logged' = {"HANGING IN_MOVED_FROM"}
    /\ UNCHANGED <<wlCache, cacheSize, rootDirPaths, kWatches, kQueue,
                   kInst, buf, numRead, evp, firstTry>>

\* C7 as claimed: an unmatched IN_MOVED_FROM on its first attempt is always
\* deferred, whether or not a record follows it.
C7_FirstTryAlwaysDefers ==
    [][UnmatchedFirstTry /\ Processing => Deferred]_vars

\* C7, amended: an unmatched IN_MOVED_FROM on its first attempt is deferred
\* to a supplementary read, with nothing removed, when it is the last
\* record of the buffer; when a record follows it that is not its
\* IN_MOVED_TO, it is handled at once as a move out of the trees.
C7_FirstTryDefersAtBufferEnd ==
    [][UnmatchedFirstTry /\ Processing =>
        IF HasNextEv
        THEN "MOVED_OUT" \in logged' /\ pc' # "reread"
        ELSE Deferred]_vars

\* an IN_MOVED_FROM at the end of the buffer has just been deferred
C7_Witness ==
    /\ pc = "reread"
    /\ logged = {"HANGING IN_MOVED_FROM"}
    /\ firstTry = 1
    /\ CurIdx = Len(buf)
    /\ {"IN_MOVED_FROM", "IN_ISDIR"} \subseteq buf[CurIdx].mask

\* C8: a supplementary read is made only for a record on its first attempt,
\* and the call that follows it always consumes the record, as a rename, as
\* a move out of the trees or by a rebuild; no record is deferred a second
\* time, so each record of a buffer costs at most two calls and one
\* supplementary read.
C8_RetryConsumes ==
    [][/\ pc = "reread" =>
            /\ firstTry = 1
            /\ pc' \in {"reread", "proc"}
            /\ pc' = "proc" => firstTry' = 0 /\ evp' = 0
       /\ pc = "proc" /\ firstTry = 0 /\ Processing =>
            /\ pc' # "reread"
            /\ "HANGING IN_MOVED_FROM" \notin logged'
            /\ firstTry' = 1
            /\ pc' = "proc" => evp' > evp
            /\ DirMovedFrom /\ HandleCached(wlCache, CurEv.wd) =>
                   \/ "Rename" \in logged'
                   \/ "MOVED_OUT" \in logged'
                   \/ Reinitializing]_vars

\* the supplementary read has brought the IN_MOVED_TO of the deferred record
C8_Witness ==
    /\ pc = "proc"
    /\ firstTry = 0
    /\ evp = 0
    /\ DirMovedFrom
    /\ MatchingMovedTo

\* the handle of the record being processed, or of the IN_MOVED_TO paired
\* with it, is not in the cache
CacheMiss ==
    /\ pc = "proc"
    /\ \/ /\ CurEv.mask \cap {"IN_IGNORED", "IN_Q_OVERFLOW"} = {}
          /\ ~HandleCached(wlCache, CurEv.wd)
       \/ /\ DirMovedFrom
          /\ MatchingMovedTo
          /\ ~HandleCached(wlCache, NextEv.wd)

\* C9: without -a, when the handle of the record being processed (IN_IGNORED
\* and IN_Q_OVERFLOW aside) or of the IN_MOVED_TO paired with it is not in
\* the cache, the call rebuilds the cache and no further record of the
\* buffer is processed.
C9_CacheMissReinitializes ==
    [][~abortOnCacheProblem /\ CacheMiss /\ Processing =>
        /\ Reinitializing
        /\ {"Could not find watch", "Reinitializing cache"}
              \subseteq logged'
        /\ BufferDiscarded
        /\ FreshSnapshot(wlCache', kWatches', fs', rootDirPaths')]_vars

\* a handle has just been missed and the cache rebuilt
C9_Witness ==
    /\ {"Could not find watch", "Reinitializing cache"} \subseteq logged
    /\ ~abortOnCacheProblem
    /\ kInst > 1
    /\ pc = "select"
    /\ buf = <<>>
    /\ CachePaths(wlCache) # {}

\* C10: with or without -a and whatever the cache holds, IN_Q_OVERFLOW makes
\* the call rebuild the cache; the rest of the buffer is discarded and the
\* cache is the walk of the roots not zapped.
C10_OverflowReinitializes ==
    [][IsCur("IN_Q_OVERFLOW") /\ Processing =>
        /\ Reinitializing
        /\ {"Queue overflow", "Reinitializing cache"} \subseteq logged'
        /\ BufferDiscarded
        /\ rootDirPaths' = rootDirPaths
        /\ FreshSnapshot(wlCache', kWatches', fs', rootDirPaths')]_vars

\* under -a, an overflow has just been answered by a rebuild that found the
\* changed tree
C10_Witness ==
    /\ "Queue overflow" \in logged
    /\ abortOnCacheProblem
    /\ kInst > 1
    /\ pc = "select"
    /\ fs # InitFs
    /\ FreshSnapshot(wlCache, kWatches, fs, rootDirPaths)

(***************************************************************************)
(* Directories that arrive and directories that go.                        *)
(***************************************************************************)

\* directory i has one cache entry, under the pathname by which it is found,
\* and that entry holds the one watch on i
CachedOnce(c, kw, f, i) ==
    /\ Cardinality({j \in ActiveSlots(c) : c[j].path = PathOf(f, i)}) = 1
    /\ Cardinality({w \in DOMAIN kw : kw[w].ino = i}) = 1
    /\ \A j \in ActiveSlots(c) :
          c[j].path = PathOf(f, i) =>
              c[j].wd \in DOMAIN kw /\ kw[c[j].wd].ino = i

\* the call has met no failure of the walk other than a directory that has
\* gone
WalkDone == pc' \notin {"exited", "aborted"} /\ "nftw" \notin logged'

\* C11 as claimed: when a directory's IN_CREATE or IN_MOVED_TO is processed,
\* the pathname it names is not cached and the directory still exists, the
\* call leaves one cache entry and one watch for that directory and for every
\* directory below it, those created before the call came to them included.
C11_ArrivalAlwaysCaches ==
    [][WalkStarts /\ Processing /\ WalkDone /\ Resolve(fs', WalkPath) # 0 =>
        \A i \in Below(fs', Resolve(fs', WalkPath)) :
            CachedOnce(wlCache', kWatches', fs', i)]_vars

\* the slots whose handle is a watch on directory i
SlotsHolding(c, kw, i) ==
    {j \in ActiveSlots(c) : c[j].wd \in DOMAIN kw /\ kw[c[j].wd].ino = i}

\* C11, amended: the call leaves one cache entry and one watch for each
\* directory at and below the pathname that had no cache entry; a directory
\* whose watch is in the cache already, under the pathname it had before a
\* rename, keeps that entry as it is and gets no other.
C11_ArrivalCachesSubtree ==
    [][WalkStarts /\ Processing /\ WalkDone /\ Resolve(fs', WalkPath) # 0 =>
        \A i \in Below(fs', Resolve(fs', WalkPath)) :
            IF SlotsHolding(wlCache, kWatches, i) = {}
            THEN CachedOnce(wlCache', kWatches', fs', i)
            ELSE /\ SlotsHolding(wlCache', kWatches', i)
                       = SlotsHolding(wlCache, kWatches, i)
                 /\ \A j \in SlotsHolding(wlCache, kWatches, i) :
                       wlCache'[j] = wlCache[j]]_vars

\* a walk has just cached a new directory together with a directory below it
C11_Witness ==
    /\ logged = {"Directory creation", "watchDir"}
    /\ Running
    /\ \E i, k \in DOMAIN fs \ DOMAIN InitFs :
          /\ fs[k].parent = i
          /\ CachedOnce(wlCache, kWatches, fs, i)
          /\ CachedOnce(wlCache, kWatches, fs, k)
          /\ \A e \in 1..Len(kQueue) : kQueue[e].wd \notin DOMAIN kWatches
                                          \/ kWatches[kQueue[e].wd].ino # i

\* the record to process is a directory's IN_CREATE or IN_MOVED_TO on a
\* cached handle, and the pathname it names is the path of a cache entry
ArrivalOfCached ==
    /\ pc = "proc"
    /\ "IN_ISDIR" \in CurEv.mask
    /\ CurEv.mask \cap {"IN_CREATE", "IN_MOVED_TO"} # {}
    /\ HandleCached(wlCache, CurEv.wd)
    /\ SlashJoin(CachedPath(wlCache, CurEv.wd), CurEv.name)
          \in CachePaths(wlCache)

\* C12: a directory's IN_CREATE or IN_MOVED_TO that names the path of a
\* cache entry is skipped: the record is consumed, no walk is started, no
\* watch is made or changed and the cache stays as it is.
C12_CachedArrivalSkipped ==
    [][ArrivalOfCached /\ Processing =>
        /\ Consumed(EvSize(CurEv))
        /\ logged' = {"Directory creation"}
        /\ wlCache' = wlCache
        /\ cacheSize' = cacheSize
        /\ kWatches' = kWatches
        /\ kNextWd' = kNextWd
        /\ kInst' = kInst]_vars

\* the IN_CREATE of a directory that an earlier walk had cached, below the
\* directory that the walk was for, has just been skipped
C12_Witness ==
    /\ logged = {"Directory creation"}
    /\ Running
    /\ \E i, k \in DOMAIN fs \ DOMAIN InitFs :
          /\ fs[k].parent = i
          /\ CachedOnce(wlCache, kWatches, fs, i)
          /\ CachedOnce(wlCache, kWatches, fs, k)

\* a directory of the walk is gone: the one the record names, before nftw()
\* looks for it, or one that nftw() has met, before its inotify_add_watch()
Vanished ==
    \/ Resolve(fs, WalkPath) = 0
    \/ DOMAIN fs' # DOMAIN fs /\ DOMAIN fs' \subseteq DOMAIN fs

\* C13: when the directory that an IN_CREATE or IN_MOVED_TO names, or a
\* directory met in its walk, has gone before its watch is made, the call
\* adds no entry for it, leaves the entries of the cache as they were,
\* neither rebuilds the cache nor ends the process, and consumes the record.
C13_VanishedAbsorbed ==
    [][WalkStarts /\ Processing /\ Vanished =>
        /\ \A j \in ActiveSlots(wlCache) :
              j \in ActiveSlots(wlCache') /\ wlCache'[j] = wlCache[j]
        /\ \A j \in ActiveSlots(wlCache') \ ActiveSlots(wlCache) :
              Resolve(fs', wlCache'[j].path) # 0
        /\ kInst' = kInst
        /\ pc' \notin {"exited", "aborted"}
        /\ Consumed(EvSize(CurEv))]_vars

\* an inotify_add_watch() of a walk has just failed on a directory that went
\* during the walk, and the program runs on
C13_Witness ==
    /\ logged = {"Directory creation", "inotify_add_watch"}
    /\ Running
    /\ opCnt >= 2

\* the walk is of a directory that exists and nothing goes during it; an
\* error that it logs is an error other than ENOENT
NothingVanished == Resolve(fs, WalkPath) # 0 /\ fs' = fs

\* C14 as claimed: any error of the walk other than ENOENT, of nftw() itself
\* or of an inotify_add_watch() in the walk, ends the process.
C14_AnyWalkErrorFatal ==
    [][WalkStarts /\ Processing /\ NothingVanished
          /\ logged' \cap {"nftw", "inotify_add_watch"} # {}
       => pc' = "exited"]_vars

\* C14, amended: an error other than ENOENT of an inotify_add_watch() in the
\* walk ends the process; an error of nftw() itself is logged, the cache
\* stays as it is and the call consumes the record.
C14_RegistrationErrorFatal ==
    [][WalkStarts /\ Processing /\ NothingVanished =>
        /\ "inotify_add_watch" \in logged' => pc' = "exited"
        /\ "nftw" \in logged' =>
              /\ pc' \notin {"exited", "aborted"}
              /\ wlCache' = wlCache
              /\ kInst' = kInst
              /\ Consumed(EvSize(CurEv))]_vars

\* an inotify_add_watch() of a walk has failed and the process has ended
C14_Witness ==
    /\ pc = "exited"
    /\ "inotify_add_watch" \in logged
    /\ "Directory creation" \in logged

\* the slot of the record's handle
CurSlot == SetMin({j \in ActiveSlots(wlCache) : wlCache[j].wd = CurEv.wd})

\* root path number r has just been zapped, and no other
ZapsRoot(r) ==
    /\ rootDirPaths' = [rootDirPaths EXCEPT ![r] = NULL]
    /\ ignoreRootDirs' = ignoreRootDirs + 1

\* C15: processing IN_DELETE_SELF for a cached handle frees the handle's
\* slot and no other; when the slot's path is a root path not yet zapped
\* that root is zapped (which ends the process when it was the last one);
\* no watch is removed by the program.
C15_DeleteSelfRemovesEntry ==
    [][IsCur("IN_DELETE_SELF") /\ HandleCached(wlCache, CurEv.wd)
          /\ Processing =>
        /\ IF IsRootDirPath(rootDirPaths, wlCache[CurSlot].path)
           THEN ZapsRoot(FindRootDirPath(rootDirPaths, wlCache[CurSlot].path))
           ELSE rootDirPaths' = rootDirPaths
                  /\ ignoreRootDirs' = ignoreRootDirs
        /\ pc' = "exited" <=>
              /\ IsRootDirPath(rootDirPaths, wlCache[CurSlot].path)
              /\ ignoreRootDirs + 1 = Len(rootDirPaths)
        /\ pc' # "exited" =>
              /\ wlCache' = MarkCacheSlotEmpty(wlCache, CurSlot)
              /\ Consumed(EvSize(CurEv))
              /\ kWatches' = kWatches
              /\ kQueue' = kQueue
              /\ kInst' = kInst
        /\ logged' = {"Clearing watchlist item"}]_vars

\* the entry of a root that was removed has just been cleared and the root
\* zapped, the other root still monitored
C15_Witness ==
    /\ logged = {"Clearing watchlist item"}
    /\ Running
    /\ ignoreRootDirs = 1
    /\ \E r \in 1..Len(rootDirPaths) :
          /\ rootDirPaths[r] = NULL
          /\ Resolve(fs, InitArgv[r]) = 0
          /\ InitArgv[r] \notin CachePaths(wlCache)

\* the pathnames of the directories there were at the start
InitPaths == {PathOf(InitFs, i) : i \in DOMAIN InitFs}

\* C16: with directories only made and removed, never renamed, once every
\* event is processed no cache entry has the pathname of a directory that
\* was made and is there no more, whichever way its IN_CREATE, its walk and
\* its removal fell.
C16_CreateDeleteRoundTrip ==
    EventComplete /\ kCookie = 0 =>
        \A j \in ActiveSlots(wlCache) :
            wlCache[j].path \notin InitPaths =>
                Resolve(fs, wlCache[j].path) # 0

\* a directory was made, watched under a new handle and removed, and every
\* event of it is processed
C16_Witness ==
    /\ EventComplete
    /\ Running
    /\ kCookie = 0
    /\ opCnt = 2
    /\ fs = InitFs
    /\ kInst = 1
    /\ kNextWd = 5
    /\ logged = {}
    /\ Cardinality(ActiveSlots(wlCache)) = Cardinality(DOMAIN InitFs) - 1

\* the record to process is IN_MOVE_SELF on a cached handle
MoveSelfOfCached == IsCur("IN_MOVE_SELF") /\ HandleCached(wlCache, CurEv.wd)

\* C17: processing IN_MOVE_SELF for a handle whose cached path is a root
\* path not yet zapped zaps that root (which ends the process when it was
\* the last one) and leaves no cache entry at or below the path; for a
\* handle whose cached path is no such root path nothing changes.
C17_RootMoveSelfZaps ==
    [][MoveSelfOfCached /\ Processing =>
        IF IsRootDirPath(rootDirPaths, wlCache[CurSlot].path)
        THEN /\ ZapsRoot(FindRootDirPath(rootDirPaths,
                                         wlCache[CurSlot].path))
             /\ "Root path moved" \in logged'
             /\ pc' = "exited" <=> ignoreRootDirs + 1 = Len(rootDirPaths)
             /\ pc' # "exited" =>
                   SlotsAtOrUnder(wlCache', wlCache[CurSlot].path) = {}
        ELSE /\ Consumed(EvSize(CurEv))
             /\ logged' = {}
             /\ UNCHANGED <<wlCache, cacheSize, rootDirPaths,
                            ignoreRootDirs, kWatches, kQueue, kInst>>]_vars

\* the lower root was renamed, its entry rewritten, and the IN_MOVE_SELF of
\* its watch, the record before the one to process, has passed without
\* effect
C17_Witness ==
    /\ pc = "proc"
    /\ logged = {}
    /\ kInst = 1
    /\ CurIdx > 1
    /\ "IN_MOVE_SELF" \in buf[CurIdx - 1].mask
    /\ HandleCached(wlCache, buf[CurIdx - 1].wd)
    /\ ~IsRootDirPath(rootDirPaths, CachedPath(wlCache, buf[CurIdx - 1].wd))
    /\ rootDirPaths = NestedArgv

\* every command-line pathname has been zapped
AllRootsZapped ==
    /\ \A r \in 1..Len(rootDirPaths) : rootDirPaths[r] = NULL
    /\ ignoreRootDirs = Len(rootDirPaths)

\* C18: the call that zaps the last root ends the process; the program
\* never reads, processes or waits for events with every root zapped.
C18_LastRootZappedExits ==
    /\ AllRootsZapped => pc = "exited"
    /\ ignoreRootDirs
          = Cardinality({r \in 1..Len(rootDirPaths) : rootDirPaths[r] = NULL})

\* the last root has just been zapped, by IN_DELETE_SELF or IN_MOVE_SELF,
\* and the process has ended
C18_Witness ==
    /\ AllRootsZapped
    /\ pc = "exited"
    /\ logged \cap {"Root path moved", "Clearing watchlist item"} # {}

(***************************************************************************)
(* The cache's invariants.                                                 *)
(***************************************************************************)
\* C19: no two cache entries in use hold the same watch descriptor.
C19_HandlesUnique ==
    \A j, k \in ActiveSlots(wlCache) :
        j # k => wlCache[j].wd # wlCache[k].wd

\* a walk has just met a directory whose watch descriptor was in the cache
\* under another pathname
C19_Witness ==
    /\ "WD already in cache" \in logged
    /\ "Directory creation" \in logged
    /\ Running
    /\ Cardinality(ActiveSlots(wlCache)) >= 3

StrayEntries ==
    {j \in ActiveSlots(wlCache) :
        wlCache[j].path \notin DirsUnderRoots(fs, rootDirPaths)}

\* the cache entries in use at or below the pathname of a zapped root
EntriesUnderZapped ==
    {j \in ActiveSlots(wlCache) :
        \E r \in 1..Len(rootDirPaths) :
            rootDirPaths[r] = NULL /\ AtOrUnder(argv[r], wlCache[j].path)}

\* C21: once every event is processed, the pathname of every cache entry in
\* use is a directory that exists at or below a root path not zapped, and
\* no entry is at or below the pathname of a zapped root.
C21_EntriesUnderLiveRoots ==
    EventComplete => StrayEntries = {} /\ EntriesUnderZapped = {}

(***************************************************************************)
(* Renames whose events interleave.                                        *)
(***************************************************************************)
IsDirMovedFrom(e) == {"IN_MOVED_FROM", "IN_ISDIR"} \subseteq e.mask

\* the record to process is x's IN_MOVED_FROM on a cached handle, and the
\* record after it is the IN_MOVED_FROM of another rename, y
InterleavedFrom ==
    /\ DirMovedFrom
    /\ HandleCached(wlCache, CurEv.wd)
    /\ HasNextEv
    /\ IsDirMovedFrom(NextEv)
    /\ NextEv.cookie # CurEv.cookie

\* the record to process is y's IN_MOVED_FROM with its IN_MOVED_TO after it,
\* and the record before it, x's IN_MOVED_FROM, has been consumed
PairAfterFrom ==
    /\ DirMovedFrom
    /\ MatchingMovedTo
    /\ CurIdx > 1
    /\ IsDirMovedFrom(buf[CurIdx - 1])
    /\ buf[CurIdx - 1].cookie # CurEv.cookie

\* the record to process is a directory's IN_MOVED_TO that no call has
\* paired, on a cached handle; it names a directory that exists, and neither
\* the pathname nor a watch on a directory at or below it is in the cache
UnpairedMovedTo ==
    /\ IsCur("IN_MOVED_TO")
    /\ WalkStarts
    /\ Resolve(fs, WalkPath) # 0
    /\ \A i \in Below(fs, Resolve(fs, WalkPath)) :
          SlotsHolding(wlCache, kWatches, i) = {}

\* the walk has made the entries it added on watches it made itself, at and
\* below the pathname walked
WalkedAfresh ==
    /\ {"Directory creation", "watchDir"} \subseteq logged'
    /\ "Rename" \notin logged'
    /\ kInst' = kInst
    /\ \A j \in ActiveSlots(wlCache) :
          j \in ActiveSlots(wlCache') /\ wlCache'[j] = wlCache[j]
    /\ \E j \in ActiveSlots(wlCache') \ ActiveSlots(wlCache) :
          wlCache'[j].path = WalkPath
    /\ \A j \in ActiveSlots(wlCache') \ ActiveSlots(wlCache) :
          /\ wlCache'[j].wd >= kNextWd
          /\ wlCache'[j].wd \in DOMAIN kWatches' \ DOMAIN kWatches
          /\ AtOrUnder(WalkPath, wlCache'[j].path)

\* C22 as claimed: only the record after a directory's IN_MOVED_FROM is looked
\* at. With IN_MOVED_FROM(x), IN_MOVED_FROM(y), IN_MOVED_TO(y), IN_MOVED_TO(x)
\* x's entries are removed with their watches as a move out of the trees, y
\* is always paired and rewritten, and the IN_MOVED_TO of x is an arrival of
\* its own whose walk makes the entries again on new watches.
C22_OnlyNextRecordPaired ==
    [][/\ InterleavedFrom /\ Processing =>
            /\ "Rename" \notin logged'
            /\ "MOVED_OUT" \in logged'
            /\ SubtreeRemoved
            /\ Consumed(EvSize(CurEv))
       /\ PairAfterFrom /\ Processing =>
            /\ logged' = {"Rename"}
            /\ Consumed(EvSize(CurEv) + EvSize(NextEv))
            /\ kInst' = kInst
       /\ UnpairedMovedTo /\ Processing /\ WalkDone /\ fs' = fs =>
            WalkedAfresh]_vars

\* C22, amended: x's IN_MOVED_FROM is never paired with an IN_MOVED_TO that
\* is not the next record: its entries are removed with their watches as a
\* move out of the trees (or the cache is rebuilt when one of these watches
\* has gone). y is paired and rewritten when the handles of both its records
\* are still cached; when one of them went with x's subtree the cache is
\* rebuilt and the buffer discarded. The IN_MOVED_TO of x is an arrival of
\* its own whose walk makes the entries again on new watches.
C22_NextRecordPairedIfCached ==
    [][/\ InterleavedFrom /\ Processing =>
            /\ "Rename" \notin logged'
            /\ "MOVED_OUT" \in logged'
            /\ IF \A j \in SlotsAtOrUnder(wlCache, OldFullPath) :
                      wlCache[j].wd \in DOMAIN kWatches
               THEN SubtreeRemoved /\ Consumed(EvSize(CurEv))
               ELSE Reinitializing /\ BufferDiscarded
       /\ PairAfterFrom /\ Processing =>
            IF HandleCached(wlCache, CurEv.wd)
               /\ HandleCached(wlCache, NextEv.wd)
            THEN /\ logged' = {"Rename"}
                 /\ Consumed(EvSize(CurEv) + EvSize(NextEv))
                 /\ kInst' = kInst
            ELSE Reinitializing /\ BufferDiscarded
       /\ UnpairedMovedTo /\ Processing /\ WalkDone /\ fs' = fs =>
            WalkedAfresh]_vars

\* x's IN_MOVED_FROM has just been handled as a move out of the trees, its
\* IN_MOVED_TO is still to come, and the record to process is the
\* IN_MOVED_FROM of y, cached under its old pathname, with its IN_MOVED_TO
C22_Witness ==
    /\ PairAfterFrom
    /\ {"MOVED_OUT", "Zapping subtree"} \subseteq logged
    /\ kInst = 1
    /\ HandleCached(wlCache, CurEv.wd)
    /\ HandleCached(wlCache, NextEv.wd)
    /\ HandleCached(wlCache, buf[CurIdx - 1].wd)
    /\ SlotsAtOrUnder(wlCache, OldFullPath) # {}
    /\ \E r \in kPending : r.cookie = buf[CurIdx - 1].cookie
    /\ Cardinality(ActiveSlots(wlCache)) < Cardinality(DOMAIN kWatches) + 2
(***************************************************************************)
(* A watch that cannot be removed while a subtree is zapped.               *)
(***************************************************************************)
\* the program reads a command in the step
Commanded == cmdCnt' # cmdCnt

\* zapSubtree() has returned -1 in the step
RmWatchFailed ==
    (Processing \/ Commanded) /\ "inotify_rm_watch" \in logged'

\* C23: whenever inotify_rm_watch() fails while a subtree is being removed,
\* whether for a rename out of the tree, a root's IN_MOVE_SELF or a command
\* 'a' or 'z', the step rebuilds the cache on a new inotify instance or ends
\* the process.
C23_RmWatchFailureEscalates ==
    [][RmWatchFailed => Reinitializing \/ pc' \in {"exited", "aborted"}]_vars

(***************************************************************************)
(* What makes event processing rebuild the cache.                          *)
(***************************************************************************)
\* the record being processed is a directory's IN_MOVED_FROM and a watch of
\* the subtree it names could not be removed
MovedOutRmWatchFailed ==
    /\ IsCur("IN_MOVED_FROM") /\ "IN_ISDIR" \in CurEv.mask
    /\ {"MOVED_OUT", "inotify_rm_watch"} \subseteq logged'

\* the record being processed is a root's IN_MOVE_SELF and a watch of the
\* root's subtree could not be removed
RootMovedRmWatchFailed ==
    /\ IsCur("IN_MOVE_SELF")
    /\ {"Root path moved", "inotify_rm_watch"} \subseteq logged'

\* C24 as claimed: a step of event processing rebuilds the cache only for a
\* handle that is not cached, for IN_Q_OVERFLOW, or for a watch that could
\* not be removed when a directory was renamed out of the tree.
C24_ThreeCausesOfRebuild ==
    [][Processing /\ Reinitializing
         => CacheMiss \/ IsCur("IN_Q_OVERFLOW") \/ MovedOutRmWatchFailed]_vars

\* C24 (amended): a step of event processing rebuilds the cache only for a
\* handle that is not cached, for IN_Q_OVERFLOW, or for a watch that could
\* not be removed when a directory was renamed out of the tree or when a
\* root was moved.
C24_FourCausesOfRebuild ==
    [][Processing /\ Reinitializing
         => \/ CacheMiss
            \/ IsCur("IN_Q_OVERFLOW")
            \/ MovedOutRmWatchFailed
            \/ RootMovedRmWatchFailed]_vars

\* a root's IN_MOVE_SELF has been processed, a watch below the root was
\* already gone, and the cache has been rebuilt without that root
C24_Witness ==
    /\ pc = "select"
    /\ {"Root path moved", "inotify_rm_watch", "Reinitializing cache"}
           \subseteq logged
    /\ "Could not find watch" \notin logged
    /\ kInst > 1
    /\ \E r \in DOMAIN rootDirPaths : rootDirPaths[r] = NULL

(***************************************************************************)
(* A filesystem is unmounted.                                              *)
(***************************************************************************)
\* C25: processing IN_UNMOUNT for a cached handle frees the handle's slot
\* and no other, calls no inotify_rm_watch() (the watches and the queue are
\* as they were), leaves the root paths alone and goes on to the next
\* record.
C25_UnmountRemovesEntry ==
    [][IsCur("IN_UNMOUNT") /\ HandleCached(wlCache, CurEv.wd) /\ Processing
         => /\ wlCache' = MarkCacheSlotEmpty(wlCache, CurSlot)
            /\ CurEv.wd \notin {wlCache'[j].wd : j \in ActiveSlots(wlCache')}
            /\ cacheSize' = cacheSize
            /\ kWatches' = kWatches
            /\ kQueue' = kQueue
            /\ kInst' = kInst
            /\ rootDirPaths' = rootDirPaths
            /\ ignoreRootDirs' = ignoreRootDirs
            /\ logged' = {"Filesystem unmounted"}
            /\ Consumed(EvSize(CurEv))]_vars

\* the entry of an unmounted directory has just been freed while another
\* entry stays in the cache, and the directory's IN_IGNORED is still to be
\* processed
C25_Witness ==
    /\ logged = {"Filesystem unmounted"}
    /\ pc = "proc"
    /\ "IN_IGNORED" \in CurEv.mask
    /\ ~HandleCached(wlCache, CurEv.wd)
    /\ CurEv.wd \notin DOMAIN kWatches
    /\ Cardinality(ActiveSlots(wlCache)) >= 2

(***************************************************************************)
(* The end of a watch.                                                     *)
(***************************************************************************)
\* C26: processing IN_IGNORED looks up no handle (no cache miss is logged,
\* whether or not the handle is cached), rebuilds nothing, leaves the cache,
\* the root paths, the watches, the queue and the inotify instance as they
\* were, and goes on to the record that follows.
C26_IgnoredIsNoOp ==
    [][IsCur("IN_IGNORED") /\ Processing
         => /\ logged' = {}
            /\ wlCache' = wlCache
            /\ cacheSize' = cacheSize
            /\ rootDirPaths' = rootDirPaths
            /\ ignoreRootDirs' = ignoreRootDirs
            /\ inotifyFd' = inotifyFd
            /\ kInst' = kInst
            /\ kFds' = kFds
            /\ kWatches' = kWatches
            /\ kQueue' = kQueue
            /\ Consumed(EvSize(CurEv))]_vars

\* an IN_IGNORED whose handle is in the cache no more has just been passed
\* over, with a further record of the same buffer to process
C26_Witness ==
    /\ pc = "proc"
    /\ CurIdx > 1
    /\ "IN_IGNORED" \in buf[CurIdx - 1].mask
    /\ ~HandleCached(wlCache, buf[CurIdx - 1].wd)
    /\ evp = Offset(buf, CurIdx - 1) + EvSize(buf[CurIdx - 1])
    /\ logged = {}
    /\ kInst = 1

(***************************************************************************)
(* Command-line pathnames that main() refuses.                             *)
(***************************************************************************)
\* command-line pathname j names something that is not a directory
NotADirectory(j) == argv[j] \in FilePaths

\* command-line pathnames j and k name one directory
SameDirectory(j, k) ==
    /\ j # k
    /\ Resolve(fs, StripSlashes(argv[j])) # 0
    /\ Resolve(fs, StripSlashes(argv[j])) = Resolve(fs, StripSlashes(argv[k]))

Refused ==
    \/ \E j \in 1..Len(argv) : NotADirectory(j)
    \/ \E j, k \in 1..Len(argv) : SameDirectory(j, k)

\* no inotify instance was ever made, and the cache has no entry
NothingStarted ==
    /\ kInst = 0
    /\ kFds = <<>>
    /\ inotifyFd = -1
    /\ kWatches = <<>>
    /\ kNextWd = 1
    /\ ActiveSlots(wlCache) = {}
    /\ cacheSize = 0

\* C27: when a command-line pathname is not a directory, or two of them
\* name the same directory, main() ends the process with the failure status
\* before the cache is built: no inotify instance is made, no watch is
\* added and no cache entry is made.
C27_BadPathsRefused ==
    [][pc = "start" /\ pc' # "start" /\ Refused
         => pc' = "exited" /\ exitStatus' = "failure" /\ NothingStarted']_vars

\* main() has refused a command line that names one directory under two
\* spellings
C27_Witness ==
    /\ pc = "exited"
    /\ exitStatus = "failure"
    /\ NothingStarted
    /\ "Duplicate filesystem objects" \in logged
    /\ \E j, k \in 1..Len(argv) : SameDirectory(j, k) /\ argv[j] # argv[k]

(***************************************************************************)
(* A root that is renamed inside the tree of another root.                 *)
(***************************************************************************)
\* the record's handle is cached under a pathname that an earlier rename in
\* the tree has rewritten: it is the pathname of no root
RewrittenRoot ==
    /\ HandleCached(wlCache, CurEv.wd)
    /\ ~IsRootDirPath(rootDirPaths, wlCache[CurSlot].path)

\* C28: IN_MOVE_SELF is asked for root directories only; when it is
\* processed for a cached handle, the pathname cached for the handle is
\* recognised as a root path, also after a rename in the tree has rewritten
\* it, and that root is zapped.
C28_RenamedRootStillRoot ==
    [][IsCur("IN_MOVE_SELF") /\ HandleCached(wlCache, CurEv.wd) /\ Processing
         => /\ IsRootDirPath(rootDirPaths, wlCache[CurSlot].path)
            /\ ZapsRoot(FindRootDirPath(rootDirPaths,
                                        wlCache[CurSlot].path))]_vars

(***************************************************************************)
(* A cache miss with and without -a.                                       *)
(***************************************************************************)
\* C29: with -a, a step of event processing that misses the cache rebuilds
\* nothing: the stop file is made, the cache is dumped to the log and the
\* process ends by abort(); without -a such a step never ends the process
\* by abort().
C29_CacheMissAbortsUnderA ==
    [][Processing /\ CacheMiss
         => IF abortOnCacheProblem
            THEN /\ ~Reinitializing
                 /\ wlCache' = wlCache
                 /\ stopFileExists'
                 /\ "Total entries" \in logged'
                 /\ pc' = "aborted"
                 /\ exitStatus' = "abort"
            ELSE pc' # "aborted" /\ ~stopFileExists']_vars

(***************************************************************************)
(* The size of the cache array.                                            *)
(***************************************************************************)
\* C30 as claimed: whatever is done with the cache, cacheSize never
\* decreases.
C30_CapacityNeverDecreases == [][cacheSize' >= cacheSize]_vars

\* what findEmptyCacheSlot() would return now: a free slot of the array as
\* it is, or else the first of ALLOC_INCR further slots, all of them free
SlotChoice ==
    LET e == FindEmptyCacheSlot(wlCache, cacheSize)
    IN  IF FreeSlots(wlCache, cacheSize) # {}
        THEN /\ e.size = cacheSize
             /\ e.slot \in FreeSlots(wlCache, cacheSize)
        ELSE /\ e.size = cacheSize + ALLOC_INCR
             /\ e.slot = cacheSize
             /\ \A j \in cacheSize..(e.size - 1) : j \notin DOMAIN wlCache

\* C30 (amended): cacheSize decreases only when the cache is reset, which
\* frees the array (cacheSize = 0) before the cache is rebuilt; otherwise it
\* stays as it is while a free slot is found and grows by ALLOC_INCR free
\* slots when none is; every slot in use is below cacheSize.
C30_CapacityDecreasesOnlyOnReset ==
    [][/\ SlotChoice
       /\ \A j \in DOMAIN wlCache' : j < cacheSize'
       /\ IF Reinitializing
          THEN cacheSize' = IF DOMAIN wlCache' = {} THEN 0 ELSE ALLOC_INCR
          ELSE \/ cacheSize' = cacheSize
               \/ /\ cacheSize' = cacheSize + ALLOC_INCR
                  /\ Cardinality(DOMAIN wlCache') > cacheSize]_vars

\* the cache was built with ALLOC_INCR slots at the start and has been reset
\* since: no root could be walked, and the array is gone
C30_Witness ==
    /\ pc = "select"
    /\ kInst > 1
    /\ "Reinitializing cache" \in logged
    /\ cacheSize = 0
    /\ wlCache = <<>>
    /\ \E r \in 1..Len(rootDirPaths) : rootDirPaths[r] # NULL

(***************************************************************************)
(* Pathnames that only begin like the pathname renamed or removed.         *)
(***************************************************************************)
\* the entries in use whose pathname is neither P nor P/suffix are in the
\* cache after the step as they were before it
OthersKept(P) ==
    \A j \in ActiveSlots(wlCache) :
        ~AtOrUnder(P, wlCache[j].path) =>
            j \in DOMAIN wlCache' /\ wlCache'[j] = wlCache[j]

\* the record is a directory's IN_MOVED_FROM that the step takes for a move
\* out of the tree, and every watch of the subtree could be removed
MovedOutZapped ==
    /\ DirMovedFrom
    /\ HandleCached(wlCache, CurEv.wd)
    /\ "MOVED_OUT" \in logged'
    /\ ~Reinitializing

\* C31: when a rename in the tree rewrites the pathnames at and below P, and
\* when the subtree of P is removed from the cache, an entry whose pathname
\* only begins with the characters of P (/t/ab for P = /t/a) keeps its slot,
\* its handle and its pathname.
C31_SubtreeMatchDelimited ==
    [][Processing =>
        /\ PairedRename => OthersKept(OldFullPath)
        /\ MovedOutZapped => OthersKept(OldFullPath)]_vars

\* /t/a has just been renamed to /t/c by a pair of records while /t/ab was
\* in the cache, and /t/ab is in it still
C31_Witness ==
    /\ logged = {"Rename"}
    /\ kInst = 1
    /\ <<"/", "t", "/", "a", "b">> \in CachePaths(wlCache)
    /\ <<"/", "t", "/", "c">> \in CachePaths(wlCache)
    /\ <<"/", "t", "/", "a">> \notin CachePaths(wlCache)
    /\ Cardinality(ActiveSlots(wlCache)) = 4

(***************************************************************************)
(* What a rename in the tree leaves alone.                                 *)
(***************************************************************************)
\* C32: a step that applies a paired rename changes pathnames only: the
\* slots in use and their handles are the same, the array is not resized,
\* no watch is added or removed (the watches and the queue are as they
\* were, on the same instance), and the root paths are unchanged.
C32_RenameChangesPathsOnly ==
    [][PairedRename /\ Processing =>
        /\ ActiveSlots(wlCache') = ActiveSlots(wlCache)
        /\ DOMAIN wlCache' = DOMAIN wlCache
        /\ \A j \in DOMAIN wlCache : wlCache'[j].wd = wlCache[j].wd
        /\ cacheSize' = cacheSize
        /\ kWatches' = kWatches
        /\ kNextWd' = kNextWd
        /\ kQueue' = kQueue
        /\ kInst' = kInst
        /\ inotifyFd' = inotifyFd
        /\ rootDirPaths' = rootDirPaths
        /\ ignoreRootDirs' = ignoreRootDirs
        /\ logged' = {"Rename"}]_vars

\* /t/a has just been renamed to /t/c with a directory below it: both
\* entries carry the new pathname, and every entry holds a watch
C32_Witness ==
    /\ logged = {"Rename"}
    /\ {<<"/", "t", "/", "c">>, <<"/", "t", "/", "c", "/", "a", "b">>}
           \subseteq CachePaths(wlCache)
    /\ \A j \in ActiveSlots(wlCache) : wlCache[j].wd \in DOMAIN kWatches
    /\ Cardinality(DOMAIN kWatches) = Cardinality(ActiveSlots(wlCache))

(***************************************************************************)
(* The deferred IN_MOVED_FROM and its second attempt.                      *)
(***************************************************************************)
\* a directory IN_MOVED_FROM that ends the buffer, on its first attempt
HangingAtEnd == DirMovedFrom /\ ~HasNextEv /\ firstTry = 1

\* the call changes nothing and consumes nothing
NothingChangedOrConsumed ==
    /\ pc' = "reread"
    /\ UNCHANGED <<wlCache, cacheSize, rootDirPaths, ignoreRootDirs,
                   inotifyFd, kFds, kInst, kWatches, kNextWd, kQueue,
                   buf, numRead, evp>>

\* the supplementary read: the deferred record becomes the first of the
\* buffer, the records read follow it in the queue's order, and the next
\* call starts at the beginning of the buffer
RetriedFirst ==
    /\ evp' = 0
    /\ firstTry' = 0
    /\ \E n \in 0..Len(kQueue) :
          /\ buf' = <<CurEv>> \o SubSeq(kQueue, 1, n)
          /\ kQueue' = SubSeq(kQueue, n + 1, Len(kQueue))
    /\ UNCHANGED <<wlCache, cacheSize, rootDirPaths, ignoreRootDirs,
                   inotifyFd, kFds, kInst, kWatches, kNextWd>>

\* C33 as claimed: the first attempt on a directory IN_MOVED_FROM that ends
\* the buffer changes nothing and consumes nothing, whether or not the
\* record's handle is in the cache.
C33_DeferralChangesNothing ==
    [][HangingAtEnd /\ Processing => NothingChangedOrConsumed]_vars

\* C33, amended: when the handle of a directory IN_MOVED_FROM that ends the
\* buffer is in the cache, its first attempt changes nothing (cache, root
\* paths, descriptor, watches, queue) and consumes nothing; the
\* supplementary read then puts the same record first in the buffer,
\* followed in order by the records it read, and processing restarts there.
C33_DeferralThenRetryFromStart ==
    [][/\ HangingAtEnd /\ HandleCached(wlCache, CurEv.wd) /\ Processing =>
            NothingChangedOrConsumed
       /\ pc = "reread" /\ pc' = "proc" => RetriedFirst]_vars

\* a deferred record is the first of the buffer, on its second attempt,
\* with a newly read record after it that is not its IN_MOVED_TO
C33_Witness ==
    /\ pc = "proc"
    /\ firstTry = 0
    /\ evp = 0
    /\ DirMovedFrom
    /\ HandleCached(wlCache, CurEv.wd)
    /\ HasNextEv
    /\ ~MatchingMovedTo
    /\ logged = {"SECONDARY Read"}

(***************************************************************************)
(* The supplementary read that the alarm interrupts.                       *)
(***************************************************************************)
\* the supplementary read finds the queue empty: read() is interrupted by
\* SIGALRM and returns -1 with EINTR
Interrupted == pc = "reread" /\ pc' = "proc" /\ kQueue = <<>>

\* C34: when the supplementary read is interrupted with nothing read, the
\* count of valid bytes is the number of bytes that were moved to the start
\* of the buffer, and the read is not counted or logged as a read.
C34_InterruptedReadKeepsCount ==
    [][Interrupted =>
        /\ numRead' = numRead - evp
        /\ "SECONDARY Read" \notin logged']_vars

(***************************************************************************)
(* The count of the roots no longer monitored.                             *)
(***************************************************************************)
\* main() has built the cache and the process has not ended
Monitoring == Running /\ pc # "start"

ZappedRoots(roots) == {j \in 1..Len(roots) : roots[j] = NULL}

RootAccounting ==
    Monitoring =>
        /\ ignoreRootDirs = Cardinality(ZappedRoots(rootDirPaths))
        /\ ignoreRootDirs < Len(rootDirPaths)

\* a root path set to NULL stays NULL, the other root paths keep their
\* string, the string of a root just zapped is the string of no root, and a
\* rebuild of the cache walks only roots that are not zapped
ZapIrreversible ==
    Monitoring =>
        /\ Len(rootDirPaths') = Len(rootDirPaths)
        /\ \A j \in 1..Len(rootDirPaths) :
              /\ rootDirPaths'[j] # NULL => rootDirPaths'[j] = rootDirPaths[j]
              /\ rootDirPaths[j] # NULL /\ rootDirPaths'[j] = NULL =>
                     ~IsRootDirPath(rootDirPaths', rootDirPaths[j])
        /\ Reinitializing =>
              \A k \in ActiveSlots(wlCache') :
                  \E j \in 1..Len(rootDirPaths) :
                      /\ rootDirPaths[j] # NULL
                      /\ AtOrUnder(rootDirPaths[j], wlCache'[k].path)

\* C35: while the program runs, ignoreRootDirs is the number of root paths
\* set to NULL and is less than the number of root paths; a root path set
\* to NULL is never set again, matches no later isRootDirPath() and is not
\* walked by a later rebuild.
C35_RootAccounting ==
    [][RootAccounting /\ RootAccounting' /\ ZapIrreversible]_vars

\* one of two roots has been zapped, the cache has been rebuilt since on a
\* new inotify instance, and the program still runs
C35_Witness ==
    /\ Monitoring
    /\ ignoreRootDirs = 1
    /\ Cardinality(ZappedRoots(rootDirPaths)) = 1
    /\ kInst > 1
    /\ ActiveSlots(wlCache) # {}

(***************************************************************************)
(* One inotify file descriptor at a time.                                  *)
(***************************************************************************)
\* the process has one inotify file descriptor open, the one that inotifyFd
\* holds, and it refers to the instance that has the watches
OneChannel ==
    /\ DOMAIN kFds = {inotifyFd}
    /\ kFds[inotifyFd] = kInst

\* C36: while the program monitors, exactly one inotify file descriptor is
\* open; a rebuild, whether an event or command '0' starts it, closes the old
\* descriptor before inotify_init() (the new instance gets the descriptor
\* number just freed), and after it every cache entry in use holds a handle
\* of a watch of the new instance.
C36_OneChannelOpen ==
    [][/\ Monitoring => OneChannel
       /\ Monitoring /\ Monitoring' /\ Reinitializing =>
            /\ OneChannel'
            /\ kInst' = kInst + 1
            /\ inotifyFd' = inotifyFd
            /\ \A j \in ActiveSlots(wlCache') :
                   wlCache'[j].wd \in DOMAIN kWatches']_vars

\* command '0' has just rebuilt the cache, after an earlier rebuild that an
\* event had started
C36_Witness ==
    /\ pc = "select"
    /\ cmdCnt = 1
    /\ "Initializing cache" \in logged
    /\ kInst = 3
    /\ OneChannel
    /\ ActiveSlots(wlCache) # {}
    /\ \A j \in ActiveSlots(wlCache) : wlCache[j].wd \in DOMAIN kWatches

(***************************************************************************)
(* The read() that follows a command in the same turn of main()'s loop.    *)
(***************************************************************************)
\* C37: read() is called on the inotify descriptor only when the select()
\* of that turn of the loop found this instance readable: the program is
\* never in read() on an instance with nothing queued, where it would not
\* serve commands, also when command '0' has replaced the instance earlier
\* in the turn.
C37_ReadOnlyWhenReadable == pc = "read" => kQueue # <<>>

(***************************************************************************)
(* Events for files that are not directories.                              *)
(***************************************************************************)
\* the record being processed is IN_CREATE, IN_MOVED_FROM or IN_MOVED_TO
\* without IN_ISDIR
NonDirChild ==
    /\ pc = "proc"
    /\ CurEv.mask \cap {"IN_CREATE", "IN_MOVED_FROM", "IN_MOVED_TO"} # {}
    /\ "IN_ISDIR" \notin CurEv.mask

\* C38: processing IN_CREATE, IN_MOVED_FROM or IN_MOVED_TO without IN_ISDIR
\* for a cached handle changes neither the cache, the root paths, the
\* watches nor the inotify instance, and consumes the record and no other.
C38_NonDirectoryIgnored ==
    [][NonDirChild /\ HandleCached(wlCache, CurEv.wd) /\ Processing =>
        /\ UNCHANGED <<wlCache, cacheSize, rootDirPaths, ignoreRootDirs,
                       inotifyFd, kFds, kInst, kWatches, kNextWd, kQueue>>
        /\ Consumed(EvSize(CurEv))
        /\ exitStatus' = exitStatus
        /\ firstTry' = 1]_vars

\* the IN_MOVED_FROM of a file has just been consumed on its own: its
\* IN_MOVED_TO, same cookie, is the next record to process
C38_Witness ==
    /\ pc = "proc"
    /\ CurIdx > 1
    /\ "IN_MOVED_TO" \in CurEv.mask
    /\ "IN_ISDIR" \notin CurEv.mask
    /\ "IN_MOVED_FROM" \in buf[CurIdx - 1].mask
    /\ "IN_ISDIR" \notin buf[CurIdx - 1].mask
    /\ buf[CurIdx - 1].cookie = CurEv.cookie
    /\ HandleCached(wlCache, buf[CurIdx - 1].wd)
    /\ Cardinality(ActiveSlots(wlCache)) = 3

====
